---------------------------- MODULE Spec2Model ----------------------------
(***************************************************************************)
(* A model of SimpleModularCoder: the sandboxed tool dispatcher            *)
(* (src/src/tools.py), the conversation store (src/src/session.py,         *)
(* src/src/types.py), the turn engine with its argument repair             *)
(* (src/src/agent.py) and the builder's retry loop (src/run_basic.py).     *)
(*                                                                         *)
(* Text is a sequence of one-character strings, so that prefix tests,      *)
(* splitting and parsing are computed character by character as the        *)
(* Python code computes them.  os.path is posixpath.                       *)
(***************************************************************************)
EXTENDS Integers, Sequences, FiniteSets, TLC

VARIABLES
    base_dir,        \* ToolSet.base_dir
    allowed_dirs,    \* ToolSet.allowed_dirs; the empty sequence is None
    readonly_files,  \* ToolSet.readonly_files
    files,           \* the filesystem: absolute path of each file -> its content
    dirs,            \* the filesystem: absolute paths of the directories
    upath,           \* the path text handed to the dispatcher
    res,             \* what the last dispatcher function returned or raised
    ncalls,          \* dispatcher calls made so far
    history,         \* Session.history
    added,           \* the messages handed to the Session's add_ methods, in call order
    mode,            \* args.mode
    pc,              \* where main is: "input", "start", "model", "tools", "returned"
    pending,         \* the tool calls of the last assistant message not yet executed
    last_content,    \* Agent.run's last_content
    exc,             \* the exception that left Agent.run for main's handler, or "none"
    sup,             \* the locals of the builder's retry loop
    inputs           \* user inputs read so far

tsVars == <<base_dir, allowed_dirs, readonly_files>>

fsVars == <<files, dirs>>

sessVars == <<history, added>>

agentVars == <<mode, pc, pending, last_content, exc, sup, inputs>>

vars == <<base_dir, allowed_dirs, readonly_files, files, dirs, upath, res, ncalls,
          history, added, mode, pc, pending, last_content, exc, sup, inputs>>

-----------------------------------------------------------------------------
(* main's locals before any input is read (src/run_basic.py)               *)

NoSup ==
    [active |-> FALSE, attempt |-> 0, engine_runs |-> 0, oracle_runs |-> 0,
     oracle_k |-> 0, output |-> <<>>, report |-> "none", sentinel |-> FALSE,
     current_prompt |-> <<>>,
     dependency_context |-> <<>>, module_path |-> <<>>, project_root |-> <<>>]

IdleMain ==
    /\ mode = "coder"
    /\ pc = "input"
    /\ pending = <<>>
    /\ last_content = <<"None">>
    /\ exc = "none"
    /\ sup = NoSup
    /\ inputs = 0


-----------------------------------------------------------------------------
(* Text helpers: str.startswith, str.endswith, str.split('/'), '/'.join    *)

StartsWith(s, p) == Len(p) <= Len(s) /\ SubSeq(s, 1, Len(p)) = p

EndsWith(s, p) == Len(p) <= Len(s) /\ SubSeq(s, Len(s) - Len(p) + 1, Len(s)) = p

Last(s) == s[Len(s)]

Front(s) == SubSeq(s, 1, Len(s) - 1)

RECURSIVE SplitAcc(_, _, _)
SplitAcc(s, i, cur) ==
    IF i > Len(s) THEN <<cur>>
    ELSE IF s[i] = "/" THEN <<cur>> \o SplitAcc(s, i + 1, <<>>)
    ELSE SplitAcc(s, i + 1, Append(cur, s[i]))

\* s.split('/'): always at least one component, empty ones kept
SplitSlash(s) == SplitAcc(s, 1, <<>>)

RECURSIVE JoinSlash(_)
JoinSlash(comps) ==
    IF comps = <<>> THEN <<>>
    ELSE IF Len(comps) = 1 THEN comps[1]
    ELSE comps[1] \o <<"/">> \o JoinSlash(Tail(comps))

-----------------------------------------------------------------------------
(* posixpath                                                               *)

Cwd == <<"/">>

isabs(p) == StartsWith(p, <<"/">>)

\* posixpath.join(a, b)
path_join(a, b) ==
    IF isabs(b) THEN b
    ELSE IF a = <<>> \/ EndsWith(a, <<"/">>) THEN a \o b
    ELSE a \o <<"/">> \o b

initial_slashes(path) ==
    IF ~isabs(path) THEN 0
    ELSE IF StartsWith(path, <<"/", "/">>) /\ ~StartsWith(path, <<"/", "/", "/">>) THEN 2
    ELSE 1

RECURSIVE NormComps(_, _, _)
NormComps(comps, new_comps, slashes) ==
    IF comps = <<>> THEN new_comps
    ELSE LET comp == Head(comps) IN
         IF comp = <<>> \/ comp = <<".">> THEN NormComps(Tail(comps), new_comps, slashes)
         ELSE IF comp # <<".", ".">>
                 \/ (slashes = 0 /\ new_comps = <<>>)
                 \/ (new_comps # <<>> /\ Last(new_comps) = <<".", ".">>)
              THEN NormComps(Tail(comps), Append(new_comps, comp), slashes)
         ELSE IF new_comps # <<>>
              THEN NormComps(Tail(comps), Front(new_comps), slashes)
         ELSE NormComps(Tail(comps), new_comps, slashes)

\* posixpath.normpath
normpath(path) ==
    IF path = <<>> THEN <<".">>
    ELSE LET n == initial_slashes(path)
             body == JoinSlash(NormComps(SplitSlash(path), <<>>, n))
             out == (IF n = 2 THEN <<"/", "/">> ELSE IF n = 1 THEN <<"/">> ELSE <<>>) \o body
         IN IF out = <<>> THEN <<".">> ELSE out

\* posixpath.abspath
abspath(path) == normpath(IF isabs(path) THEN path ELSE path_join(Cwd, path))

RECURSIVE LastSlash(_, _)
LastSlash(p, i) == IF i = 0 THEN 0 ELSE IF p[i] = "/" THEN i ELSE LastSlash(p, i - 1)

\* posixpath.basename
basename(p) == SubSeq(p, LastSlash(p, Len(p)) + 1, Len(p))

RECURSIVE RStripSlash(_)
RStripSlash(s) == IF s # <<>> /\ Last(s) = "/" THEN RStripSlash(Front(s)) ELSE s

AllSlashes(s) == \A i \in 1..Len(s) : s[i] = "/"

\* posixpath.dirname
dirname(p) ==
    LET head == SubSeq(p, 1, LastSlash(p, Len(p)))
    IN IF head # <<>> /\ ~AllSlashes(head) THEN RStripSlash(head) ELSE head

RECURSIVE DropEmptyDot(_)
DropEmptyDot(comps) ==
    IF comps = <<>> THEN <<>>
    ELSE IF Head(comps) = <<>> \/ Head(comps) = <<".">> THEN DropEmptyDot(Tail(comps))
    ELSE <<Head(comps)>> \o DropEmptyDot(Tail(comps))

RECURSIVE CommonPrefix(_, _)
CommonPrefix(s1, s2) ==
    IF s1 = <<>> \/ s2 = <<>> \/ Head(s1) # Head(s2) THEN <<>>
    ELSE <<Head(s1)>> \o CommonPrefix(Tail(s1), Tail(s2))

\* posixpath.commonpath([p, d]) for two paths that are both absolute
commonpath(p, d) ==
    <<"/">> \o JoinSlash(CommonPrefix(DropEmptyDot(SplitSlash(p)), DropEmptyDot(SplitSlash(d))))


-----------------------------------------------------------------------------
(* ToolSet (src/src/tools.py)                                              *)

RECURSIVE AbsAll(_)
AbsAll(ds) == IF ds = <<>> THEN <<>> ELSE <<abspath(Head(ds))>> \o AbsAll(Tail(ds))

\* A slip that leaves allowed_dirs unset
set_constraints_dirs_unset(raw_dirs) == <<>>

\* set_constraints: what self.allowed_dirs becomes (None is the empty sequence)
set_constraints_dirs(raw_dirs) == IF raw_dirs # <<>> THEN AbsAll(raw_dirs) ELSE <<>>

InList(x, xs) == \E i \in 1..Len(xs) : xs[i] = x

\* A slip that tests the directory as a text prefix instead of by commonpath
check_write_permission_prefix(abs_path, A, R) ==
    IF InList(basename(abs_path), R) THEN "readonly"
    ELSE IF A # <<>> /\ ~\E i \in 1..Len(A) : StartsWith(abs_path, A[i]) THEN "outside"
    ELSE "ok"

\* _check_write_permission: "ok" is the None it returns when writing is allowed
check_write_permission(abs_path, A, R) ==
    IF InList(basename(abs_path), R) THEN "readonly"
    ELSE IF A # <<>> /\ ~\E i \in 1..Len(A) : commonpath(abs_path, A[i]) = A[i] THEN "outside"
    ELSE "ok"

\* _resolve_path: ok = FALSE is the ValueError it raises
resolve_path(base, user_path) ==
    LET full_path == path_join(base, user_path)
        abs_path == abspath(full_path)
    IN [ok |-> StartsWith(abs_path, base), path |-> abs_path]

-----------------------------------------------------------------------------
(* The path functions applied to every short path text                     *)

MaxPathLen == 4

PathChars == {"/", ".", "a", "b"}

Roots == {<<"/", "a">>, <<"/", "a", "/", "b">>, <<"/", "b", "/">>}

AllowedChoices ==
    { <<>>,
      << <<"/", "a">> >>,
      << <<"/", "a", "/", "b">>, <<"/", "b", "/">> >> }

ReadonlyChoices == { <<>>, << <<"b">> >> }

NoRes == [op |-> "none", ok |-> TRUE, path |-> <<>>, kind |-> ""]

\* ToolSet.__init__
InitPath ==
    /\ base_dir \in {abspath(r) : r \in Roots}
    /\ allowed_dirs = <<>>
    /\ readonly_files = <<>>
    /\ upath = <<>>
    /\ res = NoRes
    /\ files = <<>>
    /\ dirs = {}
    /\ ncalls = 0
    /\ history = <<>>
    /\ added = <<>>
    /\ IdleMain

SetConstraints ==
    \E a \in AllowedChoices, r \in ReadonlyChoices :
        /\ allowed_dirs' = set_constraints_dirs(a)
        /\ readonly_files' = r
        /\ res' = NoRes
        /\ UNCHANGED <<base_dir, upath, files, dirs, ncalls, sessVars, agentVars>>

TypeChar ==
    \E c \in PathChars :
        /\ Len(upath) < MaxPathLen
        /\ upath' = Append(upath, c)
        /\ res' = NoRes
        /\ UNCHANGED <<base_dir, allowed_dirs, readonly_files, files, dirs, ncalls, sessVars, agentVars>>

Resolve ==
    /\ res.op = "none"
    /\ res' = [op |-> "resolve", ok |-> resolve_path(base_dir, upath).ok,
               path |-> resolve_path(base_dir, upath).path, kind |-> ""]
    /\ UNCHANGED <<base_dir, allowed_dirs, readonly_files, upath, files, dirs, ncalls, sessVars, agentVars>>

\* the dispatcher hands _check_write_permission normalized absolute paths
IsNormAbs(p) == initial_slashes(p) = 1 /\ normpath(p) = p

CheckPermission ==
    /\ res.op = "none"
    /\ IsNormAbs(upath)
    /\ res' = [op |-> "check", ok |-> TRUE, path |-> upath,
               kind |-> check_write_permission(upath, allowed_dirs, readonly_files)]
    /\ UNCHANGED <<base_dir, allowed_dirs, readonly_files, upath, files, dirs, ncalls, sessVars, agentVars>>

NextPath == SetConstraints \/ TypeChar \/ Resolve \/ CheckPermission

SpecPath == InitPath /\ [][NextPath]_vars

-----------------------------------------------------------------------------
(* Segment-wise containment, stated on the segments themselves             *)

Segments(p) == SelectSeq(SplitSlash(p), LAMBDA c : c # <<>>)

IsSegPrefix(d, p) ==
    /\ Len(Segments(d)) <= Len(Segments(p))
    /\ \A i \in 1..Len(Segments(d)) : Segments(d)[i] = Segments(p)[i]

\* C1: every path _resolve_path returns is normalized, absolute, and the root
\* itself or a segment-wise descendant of it (a sibling such as /ab for the
\* root /a is refused).
C1_ResolveStaysInRoot ==
    (res.op = "resolve" /\ res.ok) =>
        (IsNormAbs(res.path) /\ IsSegPrefix(base_dir, res.path))

\* C2: _check_write_permission returns the reference decision: read-only when
\* the base name is in the readonly list, else outside when allowed_dirs is
\* set and no allowed directory contains the path segment-wise, else ok.
RefDecision(p, A, R) ==
    IF \E i \in 1..Len(R) : R[i] = Last(SplitSlash(p)) THEN "readonly"
    ELSE IF A = <<>> THEN "ok"
    ELSE IF \E i \in 1..Len(A) : IsSegPrefix(A[i], p) THEN "ok"
    ELSE "outside"

C2_PermissionDecision ==
    res.op = "check" => res.kind = RefDecision(res.path, allowed_dirs, readonly_files)

\* a path denied although its text extends an allowed directory's text
C2_Witness ==
    /\ res.op = "check"
    /\ res.kind = "outside"
    /\ \E i \in 1..Len(allowed_dirs) : StartsWith(res.path, allowed_dirs[i])


-----------------------------------------------------------------------------
(* str.count, the `in` test and str.replace on text                        *)

MatchAt(s, i, pat) == i + Len(pat) - 1 <= Len(s) /\ SubSeq(s, i, i + Len(pat) - 1) = pat

\* pat in s
Contains(s, pat) == \E i \in 1..(Len(s) + 1) : MatchAt(s, i, pat)

RECURSIVE CountFrom(_, _, _)
CountFrom(s, i, pat) ==
    IF i > Len(s) THEN 0
    ELSE IF MatchAt(s, i, pat) THEN 1 + CountFrom(s, i + Len(pat), pat)
    ELSE CountFrom(s, i + 1, pat)

\* s.count(pat): occurrences that do not overlap, scanning from the left
str_count(s, pat) == IF pat = <<>> THEN Len(s) + 1 ELSE CountFrom(s, 1, pat)

RECURSIVE ReplaceFrom(_, _, _, _)
ReplaceFrom(s, i, old, new) ==
    IF i > Len(s) THEN <<>>
    ELSE IF MatchAt(s, i, old) THEN new \o ReplaceFrom(s, i + Len(old), old, new)
    ELSE <<s[i]>> \o ReplaceFrom(s, i + 1, old, new)

RECURSIVE Interleave(_, _)
Interleave(s, new) == IF s = <<>> THEN new ELSE new \o <<Head(s)>> \o Interleave(Tail(s), new)

\* s.replace(old, new)
str_replace(s, old, new) == IF old = <<>> THEN Interleave(s, new) ELSE ReplaceFrom(s, 1, old, new)

-----------------------------------------------------------------------------
(* The file operations of ToolSet on the filesystem (F: files, D: dirs).   *)
(* Each returns the filesystem it leaves and the kind of text it returns.  *)

Exists(F, D, p) == p \in DOMAIN F \/ p \in D

\* what open(path, 'r').read() gives for the characters of a file: the line
\* endings \r\n and \r are translated to \n (the default newline mode)
RECURSIVE TranslateFrom(_, _)
TranslateFrom(s, i) ==
    IF i > Len(s) THEN <<>>
    ELSE IF s[i] = "\r"
    THEN <<"\n">> \o TranslateFrom(s, IF i < Len(s) /\ s[i + 1] = "\n" THEN i + 2 ELSE i + 1)
    ELSE <<s[i]>> \o TranslateFrom(s, i + 1)

universal_newlines(s) == TranslateFrom(s, 1)

RECURSIVE AncestorsOf(_)
AncestorsOf(d) == IF dirname(d) = d THEN {d} ELSE {d} \cup AncestorsOf(dirname(d))

\* os.makedirs(d, exist_ok=True): raises when d or an ancestor is a file
makedirs(F, D, d) ==
    IF \E a \in AncestorsOf(d) : a \in DOMAIN F
    THEN [ok |-> FALSE, dirs |-> D]
    ELSE [ok |-> TRUE, dirs |-> D \cup AncestorsOf(d)]

Put(F, p, content) == [q \in DOMAIN F \cup {p} |-> IF q = p THEN content ELSE F[q]]

Out(F, D, kind) == [files |-> F, dirs |-> D, kind |-> kind]

Denied(perm) == IF perm = "readonly" THEN "denied_readonly" ELSE "denied_outside"

write_file(ts, F, D, path, content) ==
    LET r == resolve_path(ts.base_dir, path)
        perm == check_write_permission(r.path, ts.allowed_dirs, ts.readonly_files)
        md == makedirs(F, D, dirname(r.path))
    IN  IF ~r.ok THEN Out(F, D, "error_exception")
        ELSE IF perm # "ok" THEN Out(F, D, Denied(perm))
        ELSE IF ~md.ok THEN Out(F, D, "error_exception")
        ELSE IF r.path \in md.dirs THEN Out(F, md.dirs, "error_exception")
        ELSE Out(Put(F, r.path, content), md.dirs, "ok")

\* A slip that lets append create the file it does not find
append_file_creates(ts, F, D, path, content) ==
    LET r == resolve_path(ts.base_dir, path)
        perm == check_write_permission(r.path, ts.allowed_dirs, ts.readonly_files)
    IN  IF ~r.ok THEN Out(F, D, "error_exception")
        ELSE IF perm # "ok" THEN Out(F, D, Denied(perm))
        ELSE IF ~Exists(F, D, r.path) THEN Out(Put(F, r.path, content), D, "ok")
        ELSE IF r.path \in D THEN Out(F, D, "error_exception")
        ELSE Out(Put(F, r.path, F[r.path] \o content), D, "ok")


append_file(ts, F, D, path, content) ==
    LET r == resolve_path(ts.base_dir, path)
        perm == check_write_permission(r.path, ts.allowed_dirs, ts.readonly_files)
    IN  IF ~r.ok THEN Out(F, D, "error_exception")
        ELSE IF perm # "ok" THEN Out(F, D, Denied(perm))
        ELSE IF ~Exists(F, D, r.path) THEN Out(F, D, "not_found")
        ELSE IF r.path \in D THEN Out(F, D, "error_exception")
        ELSE Out(Put(F, r.path, F[r.path] \o content), D, "ok")

\* edit_file (src/src/tools.py lines 231-261); the content is what the
\* text-mode read of line 244 gives
edit_file(ts, F, D, path, old_string, new_string) ==
    LET r == resolve_path(ts.base_dir, path)
        perm == check_write_permission(r.path, ts.allowed_dirs, ts.readonly_files)
    IN  IF ~r.ok THEN Out(F, D, "error_exception")
        ELSE IF perm # "ok" THEN Out(F, D, Denied(perm))
        ELSE IF ~Exists(F, D, r.path) THEN Out(F, D, "not_found")
        ELSE IF r.path \in D THEN Out(F, D, "error_exception")
        ELSE IF ~Contains(universal_newlines(F[r.path]), old_string)
        THEN Out(F, D, "old_string_not_found")
        ELSE IF str_count(universal_newlines(F[r.path]), old_string) > 1
        THEN Out(F, D, "multiple_occurrences")
        ELSE Out(Put(F, r.path, str_replace(universal_newlines(F[r.path]), old_string, new_string)),
                 D, "ok")

-----------------------------------------------------------------------------
(* The workspace the builder works in                                      *)

Workspace == <<"/", "w">>

ModulePath == <<"/", "w", "/", "m">>

test_spec_py == <<"t", "e", "s", "t", "_", "s", "p", "e", "c", ".", "p", "y">>

PROMPT_md == <<"P", "R", "O", "M", "P", "T", ".", "m", "d">>

interface_py == <<"i", "n", "t", "e", "r", "f", "a", "c", "e", ".", "p", "y">>

BuilderReadonly == <<test_spec_py, PROMPT_md, interface_py>>

InitialDirs == {<<"/">>, Workspace, ModulePath}

InitialFiles == (ModulePath \o <<"/">> \o test_spec_py) :> <<"x">>

-----------------------------------------------------------------------------
(* Sequences of write_file, append_file and edit_file calls                *)

MaxCalls == 2

MaxContentLen == 2

FsPaths ==
    { <<"m", "/", "i">>,
      <<"m", "/", "t", "e", "s", "t", "_", "s", "p", "e", "c", ".", "p", "y">>,
      <<"o">>,
      <<".", ".", "/", "w", "2">>,
      <<".", ".", "/", "x">>,
      <<"m", "/", "d", "/", "j">>,
      <<"m", "2", "/", "i">> }

FsTexts == {<<"x">>, <<"y">>}

FsConstraints ==
    { [allowed |-> <<>>, readonly |-> <<>>],
      [allowed |-> <<ModulePath>>, readonly |-> BuilderReadonly],
      [allowed |-> <<>>, readonly |-> BuilderReadonly] }

ToolSetNow == [base_dir |-> base_dir, allowed_dirs |-> allowed_dirs, readonly_files |-> readonly_files]

InitFS ==
    /\ base_dir = abspath(Workspace)
    /\ allowed_dirs = <<>>
    /\ readonly_files = <<>>
    /\ files = InitialFiles
    /\ dirs = InitialDirs
    /\ upath = <<>>
    /\ res = NoRes
    /\ ncalls = 0
    /\ history = <<>>
    /\ added = <<>>
    /\ IdleMain

FsSetConstraints ==
    \E c \in FsConstraints :
        /\ allowed_dirs' = set_constraints_dirs(c.allowed)
        /\ readonly_files' = c.readonly
        /\ res' = NoRes
        /\ UNCHANGED <<base_dir, files, dirs, upath, ncalls, sessVars, agentVars>>

Called(op, path, o) ==
    /\ ncalls' = ncalls + 1
    /\ files' = o.files
    /\ dirs' = o.dirs
    /\ upath' = path
    /\ res' = [op |-> op, ok |-> TRUE, path |-> path, kind |-> o.kind]
    /\ UNCHANGED <<tsVars, sessVars, agentVars>>

FsWrite ==
    \E path \in FsPaths, content \in FsTexts :
        /\ ncalls < MaxCalls
        /\ Called("write_file", path, write_file(ToolSetNow, files, dirs, path, content))

FsAppend ==
    \E path \in FsPaths, content \in FsTexts :
        /\ ncalls < MaxCalls
        /\ \A q \in DOMAIN files : Len(files[q]) < MaxContentLen
        /\ Called("append_file", path, append_file(ToolSetNow, files, dirs, path, content))

FsEdit ==
    \E path \in FsPaths, old_string \in FsTexts, new_string \in FsTexts \cup {<<>>} :
        /\ ncalls < MaxCalls
        /\ Called("edit_file", path, edit_file(ToolSetNow, files, dirs, path, old_string, new_string))

NextFS == FsSetConstraints \/ FsWrite \/ FsAppend \/ FsEdit

SpecFS == InitFS /\ [][NextFS]_vars

WriteOps == {"write_file", "append_file", "edit_file"}

\* the file or directory a call is aimed at
TargetOf(path) == resolve_path(base_dir, path).path

Permitted(t, A, R) ==
    /\ IsSegPrefix(base_dir, t)
    /\ ~\E i \in 1..Len(R) : R[i] = Last(SplitSlash(t))
    /\ (A = <<>> \/ \E i \in 1..Len(A) : IsSegPrefix(A[i], t))

\* C3: a write_file, append_file or edit_file call changes the filesystem
\* only if its target lies under the workspace root, its base name is not
\* readonly and (when allowed_dirs is set) an allowed directory contains it;
\* a call the permission check denies returns an error and changes nothing.
C3_WritesOnlyWherePermitted ==
    [][(res'.op \in WriteOps /\ ncalls' = ncalls + 1) =>
         /\ (fsVars' # fsVars => Permitted(TargetOf(res'.path), allowed_dirs, readonly_files))
         /\ (res'.kind \in {"denied_readonly", "denied_outside"} => fsVars' = fsVars)
         /\ (/\ resolve_path(base_dir, res'.path).ok
             /\ RefDecision(TargetOf(res'.path), allowed_dirs, readonly_files) # "ok"
             => res'.kind \in {"denied_readonly", "denied_outside"})]_vars


-----------------------------------------------------------------------------
(* Message (src/src/types.py) and Session (src/src/session.py).            *)
(* None is NoneVal for a content; for tool_calls, tool_call_id and name    *)
(* None is the empty sequence: the code only ever tests these three for    *)
(* truth, and None and the empty value are both false.                     *)

NoneVal == <<"None">>

Message(role, content, tool_calls, tool_call_id, name) ==
    [role |-> role, content |-> content, tool_calls |-> tool_calls,
     tool_call_id |-> tool_call_id, name |-> name]

\* Message.to_dict: the keys of the wire form and their values
to_dict(msg) ==
    LET keys == {"role", "content"}
                \cup (IF msg.tool_calls # <<>> THEN {"tool_calls"} ELSE {})
                \cup (IF msg.tool_call_id # <<>> THEN {"tool_call_id"} ELSE {})
                \cup (IF msg.name # <<>> THEN {"name"} ELSE {})
    IN [k \in keys |-> msg[k]]

\* Session.__init__
NewSession(system_prompt) == <<Message("system", system_prompt, <<>>, <<>>, <<>>)>>

\* A slip that puts the new message in front of the log
add_user_message_front(h, content) == <<Message("user", content, <<>>, <<>>, <<>>)>> \o h

add_user_message(h, content) == Append(h, Message("user", content, <<>>, <<>>, <<>>))

add_assistant_message(h, content, tool_calls) ==
    Append(h, Message("assistant", content, tool_calls, <<>>, <<>>))

add_tool_output(h, tool_call_id, tool_name, output) ==
    Append(h, Message("tool", output, <<>>, tool_call_id, tool_name))

get_context(h) == [i \in 1..Len(h) |-> to_dict(h[i])]

-----------------------------------------------------------------------------
(* Any sequence of add_ calls on one Session                               *)

MaxMsgs == 3

SystemPrompt == <<"S">>

SessionTexts == {<<>>, <<"h", "i">>}

SessionCalls ==
    { <<>>,
      <<[id |-> <<"c", "1">>, name |-> <<"f">>, arguments |-> <<"{", "}">>]>> }

InitSession ==
    /\ base_dir = abspath(Workspace)
    /\ allowed_dirs = <<>>
    /\ readonly_files = <<>>
    /\ files = InitialFiles
    /\ dirs = InitialDirs
    /\ upath = <<>>
    /\ res = NoRes
    /\ ncalls = 0
    /\ history = NewSession(SystemPrompt)
    /\ added = <<>>
    /\ IdleMain

Logged(role, content) == added' = Append(added, [role |-> role, content |-> content])

AddUser ==
    \E content \in SessionTexts :
        /\ Len(added) < MaxMsgs
        /\ history' = add_user_message(history, content)
        /\ Logged("user", content)
        /\ UNCHANGED <<tsVars, fsVars, upath, res, ncalls, agentVars>>

AddAssistant ==
    \E content \in SessionTexts \cup {NoneVal}, tool_calls \in SessionCalls :
        /\ Len(added) < MaxMsgs
        /\ history' = add_assistant_message(history, content, tool_calls)
        /\ Logged("assistant", content)
        /\ UNCHANGED <<tsVars, fsVars, upath, res, ncalls, agentVars>>

AddToolOutput ==
    \E id \in {<<>>, <<"c", "1">>}, name \in {<<"f">>}, output \in SessionTexts :
        /\ Len(added) < MaxMsgs
        /\ history' = add_tool_output(history, id, name, output)
        /\ Logged("tool", output)
        /\ UNCHANGED <<tsVars, fsVars, upath, res, ncalls, agentVars>>

NextSession == AddUser \/ AddAssistant \/ AddToolOutput

SpecSession == InitSession /\ [][NextSession]_vars

\* C4: get_context() has one element per message added plus the initial
\* one, in insertion order; element 0 is the only one with role "system";
\* each add_ call appends exactly one message and leaves the earlier ones
\* as they were.
C4_ContextShape ==
    LET ctx == get_context(history) IN
    /\ Len(ctx) = Len(added) + 1
    /\ ctx[1].role = "system"
    /\ \A i \in 2..Len(ctx) :
          /\ ctx[i].role # "system"
          /\ ctx[i].role = added[i - 1].role
          /\ ctx[i].content = added[i - 1].content

C4_AppendOnly ==
    [][history' # history =>
         /\ Len(history') = Len(history) + 1
         /\ SubSeq(history', 1, Len(history)) = history]_vars

C4_SessionContext == []C4_ContextShape /\ C4_AppendOnly

\* a user, an assistant and a tool message were added, in that order
C4_Witness ==
    /\ Len(history) = 4
    /\ history[2].role = "user"
    /\ history[3].role = "assistant"
    /\ history[4].role = "tool"
    /\ "tool_call_id" \in DOMAIN get_context(history)[4]


-----------------------------------------------------------------------------
(* json.loads on the argument text of a tool call.  Values are strings,    *)
(* objects, arrays, the three literals and unsigned integers; the argument *)
(* texts of this model contain no other number form and no unicode escape.  *)

IsWs(c) == c \in {" ", "\n", "\t", "\r"}

RECURSIVE SkipWs(_, _)
SkipWs(s, i) == IF i <= Len(s) /\ IsWs(s[i]) THEN SkipWs(s, i + 1) ELSE i

Digits == {"0", "1", "2", "3", "4", "5", "6", "7", "8", "9"}

RECURSIVE SkipDigits(_, _)
SkipDigits(s, i) == IF i <= Len(s) /\ s[i] \in Digits THEN SkipDigits(s, i + 1) ELSE i

JStr(text) == [t |-> "str", s |-> text, keys |-> <<>>, vals |-> <<>>]

JObj(keys, vals) == [t |-> "obj", s |-> <<>>, keys |-> keys, vals |-> vals]

JArr(vals) == [t |-> "arr", s |-> <<>>, keys |-> <<>>, vals |-> vals]

JOther(t) == [t |-> t, s |-> <<>>, keys |-> <<>>, vals |-> <<>>]

ParseFail == [ok |-> FALSE, val |-> JOther("none"), pos |-> 0]

Parsed(val, pos) == [ok |-> TRUE, val |-> val, pos |-> pos]

Unescape(c) ==
    IF c = "n" THEN "\n" ELSE IF c = "t" THEN "\t" ELSE IF c = "r" THEN "\r" ELSE c

\* the characters of a string, from the one after the opening quote
RECURSIVE ScanString(_, _, _)
ScanString(s, i, acc) ==
    IF i > Len(s) THEN ParseFail
    ELSE IF s[i] = "\"" THEN Parsed(JStr(acc), i + 1)
    ELSE IF s[i] = "\\" THEN
        IF i + 1 <= Len(s) /\ s[i + 1] \in {"\"", "\\", "/", "n", "t", "r"}
        THEN ScanString(s, i + 2, Append(acc, Unescape(s[i + 1])))
        ELSE ParseFail
    ELSE IF s[i] \in {"\n", "\t", "\r"} THEN ParseFail
    ELSE ScanString(s, i + 1, Append(acc, s[i]))

RECURSIVE ParseValue(_, _)
RECURSIVE ParseMembers(_, _, _, _)
RECURSIVE ParseElements(_, _, _)

\* the members of an object, from the opening quote of a key
ParseMembers(s, i, keys, vals) ==
    IF i > Len(s) \/ s[i] # "\"" THEN ParseFail
    ELSE LET k == ScanString(s, i + 1, <<>>) IN
         IF ~k.ok THEN ParseFail
         ELSE LET c == SkipWs(s, k.pos) IN
              IF c > Len(s) \/ s[c] # ":" THEN ParseFail
              ELSE LET v == ParseValue(s, SkipWs(s, c + 1)) IN
                   IF ~v.ok THEN ParseFail
                   ELSE LET n == SkipWs(s, v.pos) IN
                        IF n > Len(s) THEN ParseFail
                        ELSE IF s[n] = "}"
                        THEN Parsed(JObj(Append(keys, k.val.s), Append(vals, v.val)), n + 1)
                        ELSE IF s[n] = ","
                        THEN ParseMembers(s, SkipWs(s, n + 1), Append(keys, k.val.s), Append(vals, v.val))
                        ELSE ParseFail

\* the elements of an array, from the first character of an element
ParseElements(s, i, vals) ==
    LET v == ParseValue(s, i) IN
    IF ~v.ok THEN ParseFail
    ELSE LET n == SkipWs(s, v.pos) IN
         IF n > Len(s) THEN ParseFail
         ELSE IF s[n] = "]" THEN Parsed(JArr(Append(vals, v.val)), n + 1)
         ELSE IF s[n] = "," THEN ParseElements(s, SkipWs(s, n + 1), Append(vals, v.val))
         ELSE ParseFail

ParseValue(s, i) ==
    IF i > Len(s) THEN ParseFail
    ELSE IF s[i] = "\"" THEN ScanString(s, i + 1, <<>>)
    ELSE IF s[i] = "{" THEN
        LET j == SkipWs(s, i + 1) IN
        IF j <= Len(s) /\ s[j] = "}" THEN Parsed(JObj(<<>>, <<>>), j + 1)
        ELSE ParseMembers(s, j, <<>>, <<>>)
    ELSE IF s[i] = "[" THEN
        LET j == SkipWs(s, i + 1) IN
        IF j <= Len(s) /\ s[j] = "]" THEN Parsed(JArr(<<>>), j + 1)
        ELSE ParseElements(s, j, <<>>)
    ELSE IF MatchAt(s, i, <<"n", "u", "l", "l">>) THEN Parsed(JOther("null"), i + 4)
    ELSE IF MatchAt(s, i, <<"t", "r", "u", "e">>) THEN Parsed(JOther("true"), i + 4)
    ELSE IF MatchAt(s, i, <<"f", "a", "l", "s", "e">>) THEN Parsed(JOther("false"), i + 5)
    ELSE IF s[i] \in Digits /\ (s[i] # "0" \/ SkipDigits(s, i) = i + 1)
    THEN Parsed(JOther("num"), SkipDigits(s, i))
    ELSE ParseFail

\* json.loads: ok = FALSE is the JSONDecodeError it raises
json_loads(s) ==
    LET v == ParseValue(s, SkipWs(s, 1)) IN
    IF v.ok /\ SkipWs(s, v.pos) = Len(s) + 1 THEN [ok |-> TRUE, val |-> v.val]
    ELSE [ok |-> FALSE, val |-> JOther("none")]

-----------------------------------------------------------------------------
(* The repairs of _execute_tool (src/src/agent.py)                         *)

RECURSIVE str_rstrip(_)
str_rstrip(s) == IF s # <<>> /\ IsWs(Last(s)) THEN str_rstrip(Front(s)) ELSE s

str_strip(s) == LET r == str_rstrip(s) IN SubSeq(r, SkipWs(r, 1), Len(r))

Lower(c) ==
    IF c = "J" THEN "j" ELSE IF c = "S" THEN "s" ELSE IF c = "O" THEN "o" ELSE IF c = "N" THEN "n"
    ELSE IF c = "Y" THEN "y" ELSE IF c = "E" THEN "e" ELSE c

str_lower(s) == [i \in 1..Len(s) |-> Lower(s[i])]

MatchAtCI(s, i, pat) ==
    /\ i + Len(pat) - 1 <= Len(s)
    /\ \A k \in 1..Len(pat) : Lower(s[i + k - 1]) = pat[k]

AtLineStart(s, i) == i = 1 \/ s[i - 1] = "\n"

\* the grave accent, which a TLA+ string cannot hold
Tick == "grave"

Fence == <<Tick, Tick, Tick>>

\* re.sub of the pattern: line start, pat (any case), then any whitespace
RECURSIVE SubLineStart(_, _, _)
SubLineStart(s, i, pat) ==
    IF i > Len(s) THEN <<>>
    ELSE IF AtLineStart(s, i) /\ MatchAtCI(s, i, pat)
    THEN SubLineStart(s, SkipWs(s, i + Len(pat)), pat)
    ELSE <<s[i]>> \o SubLineStart(s, i + 1, pat)

\* re.sub of the pattern: any whitespace, a fence, then a line end
RECURSIVE SubFenceEnd(_, _)
SubFenceEnd(s, i) ==
    IF i > Len(s) THEN <<>>
    ELSE LET j == SkipWs(s, i) IN
         IF MatchAt(s, j, Fence) /\ (j + 3 > Len(s) \/ s[j + 3] = "\n")
         THEN SubFenceEnd(s, j + 3)
         ELSE <<s[i]>> \o SubFenceEnd(s, i + 1)

\* Attempt 1: remove Markdown code blocks
strip_markdown(args_str) ==
    LET a == SubLineStart(args_str, 1, Fence \o <<"j", "s", "o", "n">>)
        b == SubLineStart(a, 1, Fence)
        c == SubFenceEnd(b, 1)
    IN str_strip(c)

\* Attempt 2: close a truncated JSON string and object
close_truncated(args_str) ==
    LET clean_str == str_rstrip(args_str)
        cut == IF EndsWith(clean_str, <<"\\">>) THEN Front(clean_str) ELSE clean_str
    IN cut \o <<"\"", "}">>


-----------------------------------------------------------------------------
(* read_file and list_files, and the texts the file operations return.     *)
(* A returned text is a sequence whose fixed phrases are single elements.  *)

\* A slip that puts reading under the write constraints
read_file_constrained(ts, F, D, path) ==
    LET r == resolve_path(ts.base_dir, path)
    IN  IF ~r.ok THEN <<"Error reading file ">> \o path
        ELSE IF check_write_permission(r.path, ts.allowed_dirs, ts.readonly_files) # "ok"
        THEN <<"Error: ", "Access Denied">>
        ELSE IF ~Exists(F, D, r.path) THEN <<"Error: File not found: ">> \o path
        ELSE IF r.path \notin DOMAIN F THEN <<"Error: Path is not a file: ">> \o path
        ELSE universal_newlines(F[r.path])

\* read_file (src/src/tools.py lines 180-192)
read_file(ts, F, D, path) ==
    LET r == resolve_path(ts.base_dir, path)
    IN  IF ~r.ok THEN <<"Error reading file ">> \o path
        ELSE IF ~Exists(F, D, r.path) THEN <<"Error: File not found: ">> \o path
        ELSE IF r.path \notin DOMAIN F THEN <<"Error: Path is not a file: ">> \o path
        ELSE universal_newlines(F[r.path])

\* os.listdir gives the entries in no particular order: the order of the set
RECURSIVE Listing(_, _)
Listing(entries, D) ==
    IF entries = {} THEN <<>>
    ELSE LET e == CHOOSE x \in entries : TRUE
             line == basename(e) \o (IF e \in D THEN <<"/">> ELSE <<>>)
         IN IF entries = {e} THEN line ELSE line \o <<"\n">> \o Listing(entries \ {e}, D)

list_files(ts, F, D, path) ==
    LET r == resolve_path(ts.base_dir, path)
        entries == {e \in (DOMAIN F \cup D) : e # r.path /\ dirname(e) = r.path}
    IN  IF ~r.ok THEN <<"Error listing directory ">> \o path
        ELSE IF ~Exists(F, D, r.path) THEN <<"Error: Directory not found: ">> \o path
        ELSE IF r.path \notin D THEN <<"Error listing directory ">> \o path
        ELSE IF entries = {} THEN <<"(empty directory)">>
        ELSE Listing(entries, D)

\* the text write_file, append_file and edit_file return for each outcome
WriteText(op, kind, path, ts) ==
    IF kind = "ok" THEN
        (IF op = "write_file" THEN <<"Successfully wrote to ">>
         ELSE IF op = "append_file" THEN <<"Successfully appended to ">>
         ELSE <<"Successfully edited ">>) \o path
    ELSE IF kind = "denied_readonly" THEN <<"Error: ", "Access Denied: ">> \o basename(resolve_path(ts.base_dir, path).path) \o <<" is read-only.">>
    ELSE IF kind = "denied_outside" THEN <<"Error: ", "Access Denied: Write operation restricted to allowed_dirs">>
    ELSE IF kind = "not_found" THEN <<"Error: File not found: ">> \o path
    ELSE IF kind = "old_string_not_found" THEN <<"Error: old_string not found in ">> \o path
    ELSE IF kind = "multiple_occurrences" THEN <<"Error: Multiple occurrences of old_string found in ">> \o path
    ELSE (IF op = "write_file" THEN <<"Error writing file ">>
          ELSE IF op = "append_file" THEN <<"Error appending to file ">>
          ELSE <<"Error editing file ">>) \o path

-----------------------------------------------------------------------------
(* Calling a ToolSet attribute by name: getattr, then the call with args   *)

\* the names of the attributes of ToolSet that a tool call can name
N ==
    [read_file |-> <<"r", "e", "a", "d", "_", "f", "i", "l", "e">>,
     write_file |-> <<"w", "r", "i", "t", "e", "_", "f", "i", "l", "e">>,
     append_file |-> <<"a", "p", "p", "e", "n", "d", "_", "f", "i", "l", "e">>,
     edit_file |-> <<"e", "d", "i", "t", "_", "f", "i", "l", "e">>,
     list_files |-> <<"l", "i", "s", "t", "_", "f", "i", "l", "e", "s">>,
     run_command |-> <<"r", "u", "n", "_", "c", "o", "m", "m", "a", "n", "d">>,
     set_constraints |-> <<"s", "e", "t", "_", "c", "o", "n", "s", "t", "r", "a", "i", "n", "t", "s">>,
     base_dir |-> <<"b", "a", "s", "e", "_", "d", "i", "r">>]

\* the names of the parameters of its methods
K ==
    [path |-> <<"p", "a", "t", "h">>,
     content |-> <<"c", "o", "n", "t", "e", "n", "t">>,
     old_string |-> <<"o", "l", "d", "_", "s", "t", "r", "i", "n", "g">>,
     new_string |-> <<"n", "e", "w", "_", "s", "t", "r", "i", "n", "g">>,
     command |-> <<"c", "o", "m", "m", "a", "n", "d">>,
     allowed_dirs |-> <<"a", "l", "l", "o", "w", "e", "d", "_", "d", "i", "r", "s">>,
     readonly_files |-> <<"r", "e", "a", "d", "o", "n", "l", "y", "_", "f", "i", "l", "e", "s">>]

\* the methods of ToolSet that this model calls by name, and its data attributes
MethodNames ==
    {N.read_file, N.write_file, N.append_file, N.edit_file, N.list_files, N.run_command,
     N.set_constraints}

DataAttributes == {N.base_dir, K.allowed_dirs, K.readonly_files}

\* hasattr(self.tool_set, func_name)
hasattr(func_name) == func_name \in MethodNames \cup DataAttributes

Required(func_name) ==
    IF func_name = N.read_file THEN {K.path}
    ELSE IF func_name \in {N.write_file, N.append_file} THEN {K.path, K.content}
    ELSE IF func_name = N.edit_file THEN {K.path, K.old_string, K.new_string}
    ELSE IF func_name = N.run_command THEN {K.command}
    ELSE {}

Optional(func_name) ==
    IF func_name = N.list_files THEN {K.path}
    ELSE IF func_name = N.set_constraints THEN {K.allowed_dirs, K.readonly_files}
    ELSE {}

KeySet(args) == {args.keys[i] : i \in 1..Len(args.keys)}

\* args[k] of the dict json.loads built: the last of several equal keys wins
Arg(args, k) ==
    args.vals[CHOOSE i \in 1..Len(args.keys) :
                 args.keys[i] = k /\ \A j \in (i + 1)..Len(args.keys) : args.keys[j] # k]

\* the call with keyword arguments binds: args is a dict, no key is unexpected, none is missing
Binds(func_name, args) ==
    /\ func_name \in MethodNames
    /\ args.t = "obj"
    /\ KeySet(args) \subseteq Required(func_name) \cup Optional(func_name)
    /\ Required(func_name) \subseteq KeySet(args)

IsStr(v) == v.t = "str"

Falsy(v) ==
    \/ v.t \in {"null", "false"}
    \/ (v.t = "str" /\ v.s = <<>>)
    \/ (v.t \in {"arr", "obj"} /\ v.vals = <<>>)

RECURSIVE StrsOf(_)
StrsOf(vals) == IF vals = <<>> THEN <<>> ELSE <<Head(vals).s>> \o StrsOf(Tail(vals))

AllStr(vals) == \A i \in 1..Len(vals) : IsStr(vals[i])

\* what a call leaves: the filesystem, the constraints, and either the value
\* returned (a text, or None) or the exception raised
Ret(F, D, A, R, text) ==
    [files |-> F, dirs |-> D, allowed_dirs |-> A, readonly_files |-> R,
     raised |-> FALSE, none |-> FALSE, text |-> text]

RetNone(F, D, A, R) ==
    [files |-> F, dirs |-> D, allowed_dirs |-> A, readonly_files |-> R,
     raised |-> FALSE, none |-> TRUE, text |-> <<>>]

Raised(F, D, A, R) ==
    [files |-> F, dirs |-> D, allowed_dirs |-> A, readonly_files |-> R,
     raised |-> TRUE, none |-> FALSE, text |-> <<>>]

\* write_file, append_file and edit_file with the argument values of the call;
\* a value that is no string raises inside the method's own try block
CallWrite(ts, F, D, args) ==
    LET path == Arg(args, K.path)
        content == Arg(args, K.content)
        A == ts.allowed_dirs
        R == ts.readonly_files
        o == write_file(ts, F, D, path.s, IF IsStr(content) THEN content.s ELSE <<>>)
    IN  IF ~IsStr(path) THEN Ret(F, D, A, R, <<"Error writing file ", "(no text)">>)
        ELSE IF IsStr(content) THEN Ret(o.files, o.dirs, A, R, WriteText("write_file", o.kind, path.s, ts))
        ELSE IF o.kind = "ok" THEN Ret(o.files, o.dirs, A, R, <<"Error writing file ">> \o path.s)
        ELSE Ret(o.files, o.dirs, A, R, WriteText("write_file", o.kind, path.s, ts))

CallAppend(ts, F, D, args) ==
    LET path == Arg(args, K.path)
        content == Arg(args, K.content)
        A == ts.allowed_dirs
        R == ts.readonly_files
        o == append_file(ts, F, D, path.s, IF IsStr(content) THEN content.s ELSE <<>>)
    IN  IF ~IsStr(path) THEN Ret(F, D, A, R, <<"Error appending to file ", "(no text)">>)
        ELSE IF IsStr(content) THEN Ret(o.files, o.dirs, A, R, WriteText("append_file", o.kind, path.s, ts))
        ELSE IF o.kind = "ok" THEN Ret(F, D, A, R, <<"Error appending to file ">> \o path.s)
        ELSE Ret(F, D, A, R, WriteText("append_file", o.kind, path.s, ts))

CallEdit(ts, F, D, args) ==
    LET path == Arg(args, K.path)
        old == Arg(args, K.old_string)
        new == Arg(args, K.new_string)
        A == ts.allowed_dirs
        R == ts.readonly_files
        probe == edit_file(ts, F, D, path.s, <<>>, <<>>)
        o == edit_file(ts, F, D, path.s, old.s, new.s)
    IN  IF ~IsStr(path) THEN Ret(F, D, A, R, <<"Error editing file ", "(no text)">>)
        ELSE IF probe.kind \in {"error_exception", "denied_readonly", "denied_outside", "not_found"}
        THEN Ret(F, D, A, R, WriteText("edit_file", probe.kind, path.s, ts))
        ELSE IF ~IsStr(old) THEN Ret(F, D, A, R, <<"Error editing file ">> \o path.s)
        ELSE IF ~IsStr(new) /\ o.kind = "ok" THEN Ret(F, D, A, R, <<"Error editing file ">> \o path.s)
        ELSE Ret(o.files, o.dirs, A, R, WriteText("edit_file", o.kind, path.s, ts))

CallRead(ts, F, D, args) ==
    LET path == Arg(args, K.path)
    IN  Ret(F, D, ts.allowed_dirs, ts.readonly_files,
            IF IsStr(path) THEN read_file(ts, F, D, path.s) ELSE <<"Error reading file ", "(no text)">>)

CallList(ts, F, D, args) ==
    LET path == IF K.path \in KeySet(args) THEN Arg(args, K.path) ELSE JStr(<<".">>)
    IN  Ret(F, D, ts.allowed_dirs, ts.readonly_files,
            IF IsStr(path) THEN list_files(ts, F, D, path.s) ELSE <<"Error listing directory ", "(no text)">>)

\* input() at the prompt raising EOFError, kept apart from every text typed
EOF == <<"EOFError">>

\* what may be typed at the prompt
Answers == { <<"y">>, <<" ", "Y">>, <<"n">>, <<"y", "e", "s">> }

PromptAnswers == Answers \cup {EOF}

\* A slip that runs the command whatever is answered
run_command_ungated(answer) ==
    IF answer = EOF THEN [raised |-> TRUE, reached |-> FALSE, text |-> <<>>]
    ELSE [raised |-> FALSE, reached |-> TRUE,
          text |-> <<"Error executing command: ", "name 'subprocess' is not defined">>]

\* run_command (src/src/tools.py lines 283-309) for what input() gives.
\* reached: control came to the subprocess.run statement of line 295.  The
\* module never imports subprocess, so that statement raises NameError, no
\* process is started, and the handler of line 308 returns the error text.
run_command(answer) ==
    IF answer = EOF THEN [raised |-> TRUE, reached |-> FALSE, text |-> <<>>]
    ELSE IF str_lower(str_strip(answer)) # <<"y">>
    THEN [raised |-> FALSE, reached |-> FALSE, text |-> <<"Error: User denied command execution.">>]
    ELSE [raised |-> FALSE, reached |-> TRUE,
          text |-> <<"Error executing command: ", "name 'subprocess' is not defined">>]

\* run_command with the argument values of the call; the command is only
\* printed before the prompt, whatever its type
CallRun(ts, F, D, args, answer) ==
    IF run_command(answer).raised THEN Raised(F, D, ts.allowed_dirs, ts.readonly_files)
    ELSE Ret(F, D, ts.allowed_dirs, ts.readonly_files, run_command(answer).text)

\* set_constraints called with the values of the call: a parameter that is
\* absent or false leaves None and []; a list of strings is taken as given
CallSetConstraints(ts, F, D, args) ==
    LET a == IF K.allowed_dirs \in KeySet(args) THEN Arg(args, K.allowed_dirs) ELSE JOther("null")
        r == IF K.readonly_files \in KeySet(args) THEN Arg(args, K.readonly_files) ELSE JOther("null")
        okA == Falsy(a) \/ (a.t = "arr" /\ AllStr(a.vals))
        okR == Falsy(r) \/ (r.t = "arr" /\ AllStr(r.vals))
    IN  CASE okA /\ okR ->
               RetNone(F, D,
                       IF Falsy(a) THEN <<>> ELSE AbsAll(StrsOf(a.vals)),
                       IF Falsy(r) THEN <<>> ELSE StrsOf(r.vals))

\* getattr(self.tool_set, func_name) called with args, for a method name
CallMethod(ts, F, D, func_name, args, approval) ==
    IF ~Binds(func_name, args) THEN Raised(F, D, ts.allowed_dirs, ts.readonly_files)
    ELSE IF func_name = N.read_file THEN CallRead(ts, F, D, args)
    ELSE IF func_name = N.write_file THEN CallWrite(ts, F, D, args)
    ELSE IF func_name = N.append_file THEN CallAppend(ts, F, D, args)
    ELSE IF func_name = N.edit_file THEN CallEdit(ts, F, D, args)
    ELSE IF func_name = N.list_files THEN CallList(ts, F, D, args)
    ELSE IF func_name = N.run_command THEN CallRun(ts, F, D, args, approval)
    ELSE CallSetConstraints(ts, F, D, args)


-----------------------------------------------------------------------------
(* Agent._execute_tool (src/src/agent.py)                                  *)

debug_invalid_json_txt == <<"d", "e", "b", "u", "g", "_", "i", "n", "v", "a", "l", "i", "d", "_", "j", "s", "o", "n", ".", "t", "x", "t">>

\* what one _execute_tool call leaves; raised: an exception left the method
Executed(c, h) ==
    [files |-> c.files, dirs |-> c.dirs, allowed_dirs |-> c.allowed_dirs,
     readonly_files |-> c.readonly_files, history |-> h, raised |-> FALSE]

Escaped(c, h) ==
    [files |-> c.files, dirs |-> c.dirs, allowed_dirs |-> c.allowed_dirs,
     readonly_files |-> c.readonly_files, history |-> h, raised |-> TRUE]

\* what becomes of the value the method returned or the exception it raised:
\* lines 210-218.  The exception is caught and reported; len(output) of a
\* method that returned None raises TypeError outside the try block.
Output(c, h, tool_call) ==
    IF c.raised
    THEN Executed(c, add_tool_output(h, tool_call.id, tool_call.function.name,
                                     <<"Error executing ">> \o tool_call.function.name
                                     \o <<": ", "exception">>))
    ELSE IF c.none THEN Escaped(c, h)
    ELSE Executed(c, add_tool_output(h, tool_call.id, tool_call.function.name, c.text))

\* the call of a parsed tool call: lines 201-218
Dispatch(ts, F, D, h, tool_call, args, approval) ==
    IF ~hasattr(tool_call.function.name)
    THEN Executed(Ret(F, D, ts.allowed_dirs, ts.readonly_files, <<>>),
                  add_tool_output(h, tool_call.id, tool_call.function.name,
                                  <<"Error: Tool ">> \o tool_call.function.name \o <<" not found">>))
    ELSE Output(CallMethod(ts, F, D, tool_call.function.name, args, approval), h, tool_call)

\* the message about a truncated call that was executed: lines 166-178; the
\* call is in no try block that catches what the method's binding raises
TruncatedOutput(c, h, tool_call) ==
    IF c.raised THEN Escaped(c, h)
    ELSE Executed(c, add_tool_output(h, tool_call.id, tool_call.function.name,
            <<"WARNING: The tool call argument was TRUNCATED due to length limits.\nI have auto-repaired the JSON and executed '">>
            \o tool_call.function.name
            \o <<"' with the PARTIAL content.\nResult: ">>
            \o c.text
            \o <<"\n\nIMPORTANT: The file is INCOMPLETE. \nYou MUST immediately call 'append_file' to write the REST of the content.\nResume exactly from the end of the written content.">>))

\* the call of a tool call whose truncated arguments were closed: lines 160-178
DispatchTruncated(ts, F, D, h, tool_call, args) ==
    TruncatedOutput(CallMethod(ts, F, D, tool_call.function.name, args, <<"n">>), h, tool_call)

\* A slip that keeps a debug file that is already there
Stash_keeps(ts, F, D, h, tool_call) ==
    LET func_name == tool_call.function.name
        stash_path == path_join(ts.base_dir, debug_invalid_json_txt)
        written == dirname(stash_path) \in D /\ stash_path \notin D
        stash_msg == IF written THEN <<"Raw arguments stashed to ">> \o stash_path
                     ELSE <<"Failed to stash raw arguments: ", "exception">>
        output == <<"Error: Invalid JSON arguments for ">> \o func_name
                  \o <<": ", "JSONDecodeError", ". ">> \o stash_msg
        c == Ret(IF written /\ stash_path \notin DOMAIN F
                 THEN Put(F, stash_path, tool_call.function.arguments) ELSE F,
                 D, ts.allowed_dirs, ts.readonly_files, <<>>)
    IN  Executed(c, add_tool_output(h, tool_call.id, func_name, output))

\* the raw arguments stashed and the parse error reported: lines 187-199
Stash(ts, F, D, h, tool_call) ==
    LET func_name == tool_call.function.name
        stash_path == path_join(ts.base_dir, debug_invalid_json_txt)
        written == dirname(stash_path) \in D /\ stash_path \notin D
        stash_msg == IF written THEN <<"Raw arguments stashed to ">> \o stash_path
                     ELSE <<"Failed to stash raw arguments: ", "exception">>
        output == <<"Error: Invalid JSON arguments for ">> \o func_name
                  \o <<": ", "JSONDecodeError", ". ">> \o stash_msg
        c == Ret(IF written THEN Put(F, stash_path, tool_call.function.arguments) ELSE F,
                 D, ts.allowed_dirs, ts.readonly_files, <<>>)
    IN  Executed(c, add_tool_output(h, tool_call.id, func_name, output))

execute_tool(ts, F, D, h, tool_call, approval) ==
    LET func_name == tool_call.function.name
        args_str == tool_call.function.arguments
        p1 == json_loads(args_str)
        p2 == json_loads(strip_markdown(args_str))
        p3 == json_loads(close_truncated(args_str))
    IN  IF p1.ok THEN Dispatch(ts, F, D, h, tool_call, p1.val, approval)
        ELSE IF p2.ok THEN Dispatch(ts, F, D, h, tool_call, p2.val, approval)
        ELSE IF func_name \in {N.write_file, N.append_file} /\ p3.ok
        THEN DispatchTruncated(ts, F, D, h, tool_call, p3.val)
        ELSE Stash(ts, F, D, h, tool_call)


-----------------------------------------------------------------------------
(* Agent.run (src/src/agent.py) as main drives it (src/run_basic.py)       *)

MaxInputs == 2

MaxToolCalls == 2

MaxPerReply == 2

ToolCall(id, name, arguments) ==
    [id |-> id, type |-> "function", function |-> [name |-> name, arguments |-> arguments]]

\* the ids the API gives tool calls are unique: the n-th call emitted is "c" n
CallId(n) == <<"c", ToString(n)>>

RECURSIVE MakeCalls(_, _)
MakeCalls(samples, n) ==
    IF samples = <<>> THEN <<>>
    ELSE <<ToolCall(CallId(n + 1), Head(samples).name, Head(samples).arguments)>>
         \o MakeCalls(Tail(samples), n + 1)

Sample(name, arguments) == [name |-> name, arguments |-> arguments]

\* tool calls a model may emit: well-formed, fenced, truncated, unparsable,
\* for tools of the catalogue and for names outside it
CoderSamples ==
    { Sample(N.write_file, <<"{", "\"", "p", "a", "t", "h", "\"", ":", " ", "\"", "m", "/", "i", "\"", ",", " ", "\"", "c", "o", "n", "t", "e", "n", "t", "\"", ":", " ", "\"", "x", "\"", "}">>),
      Sample(N.write_file, <<"{", "\"", "p", "a", "t", "h", "\"", ":", " ", "\"", "m", "/", "i", "\"", ",", " ", "\"", "c", "o", "n", "t", "e", "n", "t", "\"", ":", " ", "\"", "x">>),
      Sample(N.write_file, <<"{", "\"", "p", "a", "t", "h", "\"", ":", " ", "\"", "m", "/", "i">>),
      Sample(N.write_file, <<Tick, Tick, Tick, "j", "s", "o", "n", "\n", "{", "\"", "p", "a", "t", "h", "\"", ":", " ", "\"", "m", "/", "i", "\"", ",", " ", "\"", "c", "o", "n", "t", "e", "n", "t", "\"", ":", " ", "\"", "y", "\"", "}", "\n", Tick, Tick, Tick>>),
      Sample(N.read_file, <<"{", "\"", "p", "a", "t", "h", "\"", ":", " ", "\"", "m", "/", "i", "\"", "}">>),
      Sample(N.read_file, <<"{", "\"", "p", "a", "t", "h", "\"">>),
      Sample(N.run_command, <<"{", "\"", "c", "o", "m", "m", "a", "n", "d", "\"", ":", " ", "\"", "l", "s", "\"", "}">>),
      Sample(N.set_constraints, <<"{", "}">>),
      Sample(<<"n", "o", "p", "e">>, <<"{", "}">>) }

BuilderSamples ==
    { Sample(N.write_file, <<"{", "\"", "p", "a", "t", "h", "\"", ":", " ", "\"", "m", "/", "i", "\"", ",", " ", "\"", "c", "o", "n", "t", "e", "n", "t", "\"", ":", " ", "\"", "x", "\"", "}">>),
      Sample(N.write_file, <<"{", "\"", "p", "a", "t", "h", "\"", ":", " ", "\"", "m", "/", "i">>),
      Sample(N.write_file, <<"{", "\"", "p", "a", "t", "h", "\"", ":", " ", "\"", "m", "/", "t", "e", "s", "t", "_", "s", "p", "e", "c", ".", "p", "y", "\"", ",", " ", "\"", "c", "o", "n", "t", "e", "n", "t", "\"", ":", " ", "\"", "y", "\"", "}">>) }

Samples == IF mode = "builder" THEN BuilderSamples ELSE CoderSamples

ARCHITECT_ERROR == <<"A", "R", "C", "H", "I", "T", "E", "C", "T", "_", "E", "R", "R", "O", "R">>

DEPENDENCY_ERROR == <<"D", "E", "P", "E", "N", "D", "E", "N", "C", "Y", "_", "E", "R", "R", "O", "R">>

\* the text holds one of the two signals the builder's prompt names (src/src/prompts.py)
IsSentinel(content) == Contains(content, ARCHITECT_ERROR) \/ Contains(content, DEPENDENCY_ERROR)

\* the content of a model message that carries no tool calls
FinalContents ==
    IF mode = "builder"
    THEN { <<"d", "o", "n", "e">>, ARCHITECT_ERROR \o <<":", " ", "r">>, DEPENDENCY_ERROR \o <<":", " ", "r">>, NoneVal }
    ELSE { <<"d", "o", "n", "e">>, NoneVal }

UserInputs ==
    IF mode = "builder" THEN { <<"b", "u", "i", "l", "d", " ", "m">>, <<"h", "i">> } ELSE { <<"h", "i">> }

SeqsUpTo(S, n) == UNION {[1..k -> S] : k \in 1..n}

Min(a, b) == IF a < b THEN a ELSE b

\* llm.generate and the rest of the loop body: lines 99-123
ModelReply ==
    /\ pc = "model"
    /\ \/ \E content \in FinalContents :
            /\ history' = add_assistant_message(history, content, <<>>)
            /\ last_content' = content
            /\ pending' = <<>>
            /\ pc' = IF sup.active THEN "returned" ELSE "input"
            /\ sup' = [sup EXCEPT !.sentinel = @ \/ (sup.active /\ IsSentinel(content))]
            /\ UNCHANGED ncalls
       \/ \E calls \in SeqsUpTo(Samples, Min(MaxPerReply, MaxToolCalls - ncalls)) :
            /\ history' = add_assistant_message(history, NoneVal, MakeCalls(calls, ncalls))
            /\ last_content' = NoneVal
            /\ pending' = MakeCalls(calls, ncalls)
            /\ pc' = "tools"
            /\ ncalls' = ncalls + Len(calls)
            /\ UNCHANGED sup
    /\ UNCHANGED <<tsVars, fsVars, upath, res, added, mode, exc, inputs>>

\* the state one _execute_tool call leaves; an exception leaves Agent.run and
\* the retry loop and is printed by main's handler (line 282)
Ran(x) ==
    /\ files' = x.files
    /\ dirs' = x.dirs
    /\ allowed_dirs' = x.allowed_dirs
    /\ readonly_files' = x.readonly_files
    /\ history' = x.history
    /\ IF x.raised
       THEN /\ pc' = "input"
            /\ exc' = "TypeError"
            /\ pending' = <<>>
            /\ sup' = IF sup.active THEN [sup EXCEPT !.active = FALSE, !.report = "error"] ELSE sup
       ELSE /\ pc' = IF Len(pending) = 1 THEN "model" ELSE "tools"
            /\ exc' = "none"
            /\ pending' = Tail(pending)
            /\ sup' = sup

\* one _execute_tool call of the for loop (line 118)
ExecuteTool ==
    /\ pc = "tools"
    /\ \E approval \in PromptAnswers :
         \E x \in {execute_tool(ToolSetNow, files, dirs, history, Head(pending), approval)} : Ran(x)
    /\ UNCHANGED <<base_dir, upath, res, ncalls, added, mode, last_content, inputs>>

\* main in the standard mode: agent.run(user_input) (lines 147-152, 277)
UserInput ==
    /\ pc = "input"
    /\ mode # "builder"
    /\ inputs < MaxInputs
    /\ \E user_input \in UserInputs :
         history' = add_user_message(history, user_input)
    /\ inputs' = inputs + 1
    /\ pc' = "model"
    /\ exc' = "none"
    /\ UNCHANGED <<tsVars, fsVars, upath, res, ncalls, added, mode, pending, last_content, sup>>

\* Agent.__init__ as main calls it (lines 134-138): a new Session, a new ToolSet
InitAgent ==
    /\ base_dir = abspath(Workspace)
    /\ allowed_dirs = <<>>
    /\ readonly_files = <<>>
    /\ files = InitialFiles
    /\ dirs = InitialDirs
    /\ upath = <<>>
    /\ res = NoRes
    /\ ncalls = 0
    /\ history = NewSession(SystemPrompt)
    /\ added = <<>>
    /\ mode = "coder"
    /\ pc = "input"
    /\ pending = <<>>
    /\ last_content = NoneVal
    /\ exc = "none"
    /\ sup = NoSup
    /\ inputs = 0

NextAgent == UserInput \/ ModelReply \/ ExecuteTool

SpecAgent == InitAgent /\ [][NextAgent]_vars


\* the tool calls an assistant message carries
CallsOf(msg) == IF msg.role = "assistant" THEN msg.tool_calls ELSE <<>>

\* in the log h every tool call of every assistant message is followed, in the
\* order of the calls, by one tool message with its id, and every tool message
\* is one of those
Answered(h) ==
    /\ \A i \in 1..Len(h) :
          LET calls == CallsOf(h[i]) IN
          calls # <<>> =>
              /\ i + Len(calls) <= Len(h)
              /\ \A j \in 1..Len(calls) :
                    /\ h[i + j].role = "tool"
                    /\ h[i + j].tool_call_id = calls[j].id
              /\ (i + Len(calls) < Len(h) => h[i + Len(calls) + 1].role # "tool")
    /\ \A m \in 1..Len(h) :
          h[m].role = "tool" =>
              \E i \in 1..(m - 1) :
                  /\ m - i <= Len(CallsOf(h[i]))
                  /\ CallsOf(h[i])[m - i].id = h[m].tool_call_id

\* C5: whenever the model is about to be invoked, every tool call of every
\* earlier assistant message has been answered by exactly one tool message
\* with the same tool_call_id, placed after that assistant message in the
\* order of the calls, and every tool message answers a call of the most
\* recent assistant message before it.
C5_CallsAnsweredBeforeModel == pc = "model" => Answered(history)

\* C6: every _execute_tool call returns normally after appending exactly one
\* tool message for the call it was given; no exception leaves it.
C6_ExecuteToolNeverThrows ==
    [][pc = "tools" =>
         /\ exc' = "none"
         /\ Len(history') = Len(history) + 1
         /\ SubSeq(history', 1, Len(history)) = history
         /\ history'[Len(history')].role = "tool"
         /\ history'[Len(history')].tool_call_id = Head(pending).id]_vars


-----------------------------------------------------------------------------
(* The builder's helpers (src/run_basic.py)                                *)

WordChars ==
    {"a", "b", "c", "d", "e", "f", "g", "h", "i", "j", "k", "l", "m", "n", "o", "p", "q",
     "r", "s", "t", "u", "v", "w", "x", "y", "z", "A", "B", "C", "D", "E", "F", "G", "H",
     "I", "J", "K", "L", "M", "N", "O", "P", "Q", "R", "S", "T", "U", "V", "W", "X", "Y",
     "Z", "_"} \cup Digits

\* the characters the pattern of extract_module_path takes into a path
IsPathChar(c) == c \in WordChars \cup {"-", ".", "/", "\\"}

\* re.findall of that pattern: the longest runs of path characters, in order
RECURSIVE potential_paths(_, _, _)
potential_paths(user_input, i, cur) ==
    IF i > Len(user_input) THEN (IF cur = <<>> THEN <<>> ELSE <<cur>>)
    ELSE IF IsPathChar(user_input[i]) THEN potential_paths(user_input, i + 1, Append(cur, user_input[i]))
    ELSE (IF cur = <<>> THEN <<>> ELSE <<cur>>) \o potential_paths(user_input, i + 1, <<>>)

RECURSIVE FirstModule(_, _, _, _)
FirstModule(paths, dir, F, D) ==
    IF paths = <<>> THEN NoneVal
    ELSE IF Exists(F, D, path_join(abspath(path_join(dir, Head(paths))), test_spec_py))
    THEN abspath(path_join(dir, Head(paths)))
    ELSE FirstModule(Tail(paths), dir, F, D)

\* extract_module_path: the first path of the input that holds test_spec.py, or None
extract_module_path(user_input, dir, F, D) ==
    FirstModule(potential_paths(user_input, 1, <<>>), dir, F, D)

dependency_graph_json == <<"d", "e", "p", "e", "n", "d", "e", "n", "c", "y", "_", "g", "r", "a", "p", "h", ".", "j", "s", "o", "n">>

NoContext == [project_root |-> NoneVal, ok |-> FALSE, data |-> JOther("null")]

\* A slip that walks on past a manifest that cannot be loaded
RECURSIVE Walk_on(_, _, _, _)
Walk_on(current, hops, F, D) ==
    IF hops = 0 \/ dirname(current) = current THEN NoContext
    ELSE IF /\ path_join(dirname(current), dependency_graph_json) \in DOMAIN F
            /\ json_loads(F[path_join(dirname(current), dependency_graph_json)]).ok
    THEN [project_root |-> dirname(current), ok |-> TRUE,
          data |-> json_loads(F[path_join(dirname(current), dependency_graph_json)]).val]
    ELSE Walk_on(dirname(current), hops - 1, F, D)

\* the body of get_project_context's loop, hops iterations left
RECURSIVE Walk(_, _, _, _)
Walk(current, hops, F, D) ==
    IF hops = 0 \/ dirname(current) = current THEN NoContext
    ELSE IF Exists(F, D, path_join(dirname(current), dependency_graph_json))
    THEN (IF path_join(dirname(current), dependency_graph_json) \in DOMAIN F
             /\ json_loads(F[path_join(dirname(current), dependency_graph_json)]).ok
          THEN [project_root |-> dirname(current), ok |-> TRUE,
                data |-> json_loads(F[path_join(dirname(current), dependency_graph_json)]).val]
          ELSE NoContext)
    ELSE Walk(dirname(current), hops - 1, F, D)

\* A slip that lets the walk go one directory further up
get_project_context_6(module_path, F, D) == Walk(module_path, 6, F, D)

\* get_project_context: the walk of at most five directories up (lines 48-71)
get_project_context(module_path, F, D) == Walk(module_path, 5, F, D)

\* module_name in dep_graph, for what json.load can give; "raise" is TypeError
InGraph(dep_graph, module_name) ==
    IF dep_graph.t = "obj" THEN (IF module_name \in KeySet(dep_graph) THEN "yes" ELSE "no")
    ELSE IF dep_graph.t = "arr"
    THEN (IF \E i \in 1..Len(dep_graph.vals) : dep_graph.vals[i] = JStr(module_name) THEN "yes" ELSE "no")
    ELSE IF dep_graph.t = "str" THEN (IF Contains(dep_graph.s, module_name) THEN "yes" ELSE "no")
    ELSE "raise"

\* the lines of the note for the dependencies listed, in their order
RECURSIVE DepLines(_, _, _, _)
DepLines(deps, project_root, F, D) ==
    IF deps = <<>> THEN <<>>
    ELSE (IF Exists(F, D, path_join(project_root, Head(deps)))
          THEN <<"- **">> \o Head(deps) \o <<"**: Path ", Tick>>
               \o path_join(project_root, Head(deps)) \o <<Tick, "\n">>
          ELSE <<"- **">> \o Head(deps) \o <<"**: (Path not found at ">>
               \o path_join(project_root, Head(deps)) \o <<")\n">>)
         \o DepLines(Tail(deps), project_root, F, D)

DepHeader ==
    <<"\n\n### DEPENDENCY INJECTION\n",
      "You depend on the following modules. You MUST read their ", Tick, "interface.py", Tick,
      " to understand the API:\n">>

NoNote == [raised |-> FALSE, text |-> <<>>]

\* lines 161-180: the dependency note for the module, or the TypeError that a
\* manifest of another shape raises
NoteFor(ctx, module_name, F, D) ==
    IF ~ctx.ok \/ Falsy(ctx.data) THEN NoNote
    ELSE IF InGraph(ctx.data, module_name) = "raise" THEN [raised |-> TRUE, text |-> <<>>]
    ELSE IF InGraph(ctx.data, module_name) = "no" THEN NoNote
    ELSE IF ctx.data.t # "obj" THEN [raised |-> TRUE, text |-> <<>>]
    ELSE IF Falsy(Arg(ctx.data, module_name)) THEN NoNote
    ELSE IF Arg(ctx.data, module_name).t = "arr" /\ AllStr(Arg(ctx.data, module_name).vals)
    THEN [raised |-> FALSE,
          text |-> DepHeader \o DepLines(StrsOf(Arg(ctx.data, module_name).vals), ctx.project_root, F, D)]
    ELSE IF Arg(ctx.data, module_name).t = "obj"
    THEN [raised |-> FALSE,
          text |-> DepHeader \o DepLines(Arg(ctx.data, module_name).keys, ctx.project_root, F, D)]
    ELSE IF Arg(ctx.data, module_name).t = "str"
    THEN [raised |-> FALSE,
          text |-> DepHeader \o DepLines([i \in 1..Len(Arg(ctx.data, module_name).s) |->
                                             <<Arg(ctx.data, module_name).s[i]>>],
                                         ctx.project_root, F, D)]
    ELSE [raised |-> TRUE, text |-> <<>>]

\* the rest of a match after the word that ends before k: white space, then import
AfterWord(s, k) ==
    IF SkipWs(s, k) > k /\ MatchAt(s, SkipWs(s, k), <<"i", "m", "p", "o", "r", "t">>)
    THEN SkipWs(s, k) + 6
    ELSE 0

\* the rest of a match from j, after from and its white space: the word, with or without a dot
AfterFrom(s, j, word) ==
    IF MatchAt(s, j, <<".">> \o word) THEN AfterWord(s, j + 1 + Len(word))
    ELSE IF MatchAt(s, j, word) THEN AfterWord(s, j + Len(word))
    ELSE 0

\* one match of the import pattern at i: the position after it, or 0
ImportEnd(s, i, word) ==
    IF ~MatchAt(s, i, <<"f", "r", "o", "m">>) \/ SkipWs(s, i + 4) = i + 4 THEN 0
    ELSE AfterFrom(s, SkipWs(s, i + 4), word)

\* re.sub of the import pattern for word by the import from module_name
RECURSIVE SubImport(_, _, _, _)
SubImport(s, i, word, module_name) ==
    IF i > Len(s) THEN <<>>
    ELSE IF ImportEnd(s, i, word) > 0
    THEN <<"f", "r", "o", "m", " ">> \o module_name \o <<".">> \o word
         \o <<" ", "i", "m", "p", "o", "r", "t">>
         \o SubImport(s, ImportEnd(s, i, word), word, module_name)
    ELSE <<s[i]>> \o SubImport(s, i + 1, word, module_name)

\* the two substitutions of lines 93-94
new_content(content, module_name) ==
    SubImport(SubImport(content, 1, <<"i", "n", "t", "e", "r", "f", "a", "c", "e">>, module_name), 1, <<"i", "m", "p", "l", "e", "m", "e", "n", "t", "a", "t", "i", "o", "n">>, module_name)

implementation_py == <<"i", "m", "p", "l", "e", "m", "e", "n", "t", "a", "t", "i", "o", "n", ".", "p", "y">>

files_to_check == <<implementation_py, test_spec_py, interface_py>>

\* fix_relative_imports: the files of the module after it; a path that is no
\* file is skipped or, for a directory, fails inside the try block
RECURSIVE FixFiles(_, _, _)
FixFiles(F, names, module_path) ==
    IF names = <<>> THEN F
    ELSE IF /\ path_join(module_path, Head(names)) \in DOMAIN F
            /\ new_content(universal_newlines(F[path_join(module_path, Head(names))]), basename(module_path))
                   # universal_newlines(F[path_join(module_path, Head(names))])
    THEN FixFiles(Put(F, path_join(module_path, Head(names)),
                      new_content(universal_newlines(F[path_join(module_path, Head(names))]),
                                  basename(module_path))),
                  Tail(names), module_path)
    ELSE FixFiles(F, Tail(names), module_path)

fix_relative_imports(F, module_path) == FixFiles(F, files_to_check, module_path)


-----------------------------------------------------------------------------
(* The builder's retry loop in main (src/run_basic.py)                     *)

max_attempts == 5

Truthy(text) == text # NoneVal /\ text # <<>>

\* A slip that never sees the signal
HasArchitectError_never(response) == FALSE

\* line 207: response and "ARCHITECT_ERROR" in response
HasArchitectError(response) == Truthy(response) /\ Contains(response, ARCHITECT_ERROR)

\* A slip that leaves the dependency note out of the retry prompt
RetryPrompt_bare(module_path, output, dependency_context) ==
    <<"The previous implementation for module '">> \o module_path
    \o <<"' failed tests.\nHere is the error output:\n">> \o output
    \o <<"\n\nPlease analyze ", Tick, "implementation.py", Tick, " and ", Tick, "test_spec.py", Tick,
         ", then FIX the code to pass the tests.\nDO NOT modify ", Tick, "test_spec.py", Tick, ".">>

\* lines 254-262: the prompt of the next attempt
RetryPrompt(module_path, output, dependency_context) ==
    <<"The previous implementation for module '">> \o module_path
    \o <<"' failed tests.\nHere is the error output:\n">> \o output
    \o <<"\n\nPlease analyze ", Tick, "implementation.py", Tick, " and ", Tick, "test_spec.py", Tick,
         ", then FIX the code to pass the tests.\nDO NOT modify ", Tick, "test_spec.py", Tick, ".">>
    \o dependency_context

\* what pytest printed in the n-th run of the oracle: one text per run
PytestOutput(n) == <<"pytest output ", ToString(n)>>

\* main's handler for an exception raised before the loop (line 282)
Failed ==
    /\ exc' = "TypeError"
    /\ pc' = "input"
    /\ sup' = [NoSup EXCEPT !.report = "error"]
    /\ UNCHANGED <<tsVars, history>>

\* lines 182-198: the constraints applied and the loop entered.  The run of
\* pytest is outside the program: oracle_k is the first run that will pass,
\* max_attempts + 1 when none does.
Entered(module_path, ctx, note, user_input) ==
    IF note.raised THEN Failed
    ELSE /\ allowed_dirs' = set_constraints_dirs(<<module_path>>)
         /\ readonly_files' = BuilderReadonly
         /\ \E k \in 1..(max_attempts + 1) :
              sup' = [active |-> TRUE, attempt |-> 0, engine_runs |-> 0, oracle_runs |-> 0,
                      oracle_k |-> k, output |-> <<>>, report |-> "none", sentinel |-> FALSE,
                      current_prompt |-> user_input \o note.text,
                      dependency_context |-> note.text, module_path |-> module_path,
                      project_root |-> ctx.project_root]
         /\ pc' = "start"
         /\ exc' = "none"
         /\ UNCHANGED <<base_dir, history>>

\* lines 156-198 for one input: the module found, its context looked up and
\* the loop entered
Detected(user_input) ==
    /\ extract_module_path(user_input, Workspace, files, dirs) # NoneVal
    /\ Entered(extract_module_path(user_input, Workspace, files, dirs),
               get_project_context(extract_module_path(user_input, Workspace, files, dirs), files, dirs),
               NoteFor(get_project_context(extract_module_path(user_input, Workspace, files, dirs), files, dirs),
                       basename(extract_module_path(user_input, Workspace, files, dirs)), files, dirs),
               user_input)

\* main in builder mode, for an input that names a module (lines 155-198)
BuilderInput ==
    /\ pc = "input"
    /\ mode = "builder"
    /\ inputs < MaxInputs
    /\ \E user_input \in UserInputs : Detected(user_input)
    /\ inputs' = inputs + 1
    /\ UNCHANGED <<fsVars, upath, res, ncalls, added, mode, pending, last_content>>

\* main in builder mode, for an input that names no module (lines 263-275)
FallbackInput ==
    /\ pc = "input"
    /\ mode = "builder"
    /\ inputs < MaxInputs
    /\ \E user_input \in UserInputs :
         /\ extract_module_path(user_input, Workspace, files, dirs) = NoneVal
         /\ history' = add_user_message(history, user_input)
    /\ inputs' = inputs + 1
    /\ pc' = "model"
    /\ exc' = "none"
    /\ sup' = NoSup
    /\ UNCHANGED <<tsVars, fsVars, upath, res, ncalls, added, mode, pending, last_content>>

\* the head of the for loop and the start of agent.run (lines 200-204; agent.py 93)
StartRun ==
    /\ pc = "start"
    /\ history' = add_user_message(history, sup.current_prompt)
    /\ sup' = [sup EXCEPT !.engine_runs = @ + 1]
    /\ pc' = "model"
    /\ UNCHANGED <<tsVars, fsVars, upath, res, ncalls, added, mode, pending, last_content, exc, inputs>>

\* A slip that starts another attempt after the last one failed
Tested_unbounded(F, success, output) ==
    /\ files' = F
    /\ dirs' = dirs
    /\ IF success
       THEN /\ sup' = [sup EXCEPT !.active = FALSE, !.report = "success",
                                  !.oracle_runs = @ + 1, !.output = output]
            /\ pc' = "input"
            /\ UNCHANGED <<tsVars, history>>
       ELSE /\ history' = NewSession(SystemPrompt)
            /\ base_dir' = abspath(Workspace)
            /\ allowed_dirs' = set_constraints_dirs(<<sup.module_path>>)
            /\ readonly_files' = BuilderReadonly
            /\ sup' = [sup EXCEPT !.attempt = @ + 1, !.oracle_runs = @ + 1, !.output = output,
                                  !.current_prompt =
                                      RetryPrompt(sup.module_path, output, sup.dependency_context)]
            /\ pc' = "start"

\* lines 213-262 after the oracle ran: the loop ends, or the agent is replaced
\* and the next attempt prepared
Tested(F, success, output) ==
    /\ files' = F
    /\ dirs' = dirs
    /\ IF success
       THEN /\ sup' = [sup EXCEPT !.active = FALSE, !.report = "success",
                                  !.oracle_runs = @ + 1, !.output = output]
            /\ pc' = "input"
            /\ UNCHANGED <<tsVars, history>>
       ELSE IF sup.attempt = max_attempts - 1
       THEN /\ sup' = [sup EXCEPT !.active = FALSE, !.report = "failed",
                                  !.oracle_runs = @ + 1, !.output = output]
            /\ pc' = "input"
            /\ UNCHANGED <<tsVars, history>>
       ELSE /\ history' = NewSession(SystemPrompt)
            /\ base_dir' = abspath(Workspace)
            /\ allowed_dirs' = set_constraints_dirs(<<sup.module_path>>)
            /\ readonly_files' = BuilderReadonly
            /\ sup' = [sup EXCEPT !.attempt = @ + 1, !.oracle_runs = @ + 1, !.output = output,
                                  !.current_prompt =
                                      RetryPrompt(sup.module_path, output, sup.dependency_context)]
            /\ pc' = "start"

\* the rest of the loop body once agent.run has returned (lines 206-262)
AfterRun ==
    /\ pc = "returned"
    /\ IF HasArchitectError(last_content)
       THEN /\ sup' = [sup EXCEPT !.active = FALSE, !.report = "architect_error"]
            /\ pc' = "input"
            /\ UNCHANGED <<tsVars, fsVars, history>>
       ELSE \E F \in {fix_relative_imports(files, sup.module_path)} :
                Tested(F, sup.oracle_runs + 1 = sup.oracle_k, PytestOutput(sup.oracle_runs + 1))
    /\ UNCHANGED <<upath, res, ncalls, added, mode, pending, last_content, exc, inputs>>

InitSup ==
    /\ base_dir = abspath(Workspace)
    /\ allowed_dirs = <<>>
    /\ readonly_files = <<>>
    /\ files = InitialFiles
    /\ dirs = InitialDirs
    /\ upath = <<>>
    /\ res = NoRes
    /\ ncalls = 0
    /\ history = NewSession(SystemPrompt)
    /\ added = <<>>
    /\ mode = "builder"
    /\ pc = "input"
    /\ pending = <<>>
    /\ last_content = NoneVal
    /\ exc = "none"
    /\ sup = NoSup
    /\ inputs = 0

NextSup == BuilderInput \/ FallbackInput \/ StartRun \/ ModelReply \/ ExecuteTool \/ AfterRun

SpecSup == InitSup /\ [][NextSup]_vars


\* the retry loop has ended
LoopEnded == pc = "input" /\ sup.report # "none"

\* C7: with an oracle that first passes in its k-th run, 1 <= k <= max_attempts,
\* and a model that emits no fatal sentinel, the loop ends after exactly k runs
\* of the Turn Engine and k runs of the oracle, reporting success.
C7_SuccessOnAttemptK ==
    (LoopEnded /\ sup.oracle_k \in 1..max_attempts /\ ~sup.sentinel) =>
        /\ sup.engine_runs = sup.oracle_k
        /\ sup.oracle_runs = sup.oracle_k
        /\ sup.report = "success"

\* C8: with an oracle that never passes and a model that emits no fatal
\* sentinel, the loop ends after exactly max_attempts runs of the Turn Engine
\* and of the oracle, reporting failure and holding the output of the last run.
C8_FailureAfterAllAttempts ==
    (LoopEnded /\ sup.oracle_k = max_attempts + 1 /\ ~sup.sentinel) =>
        /\ sup.engine_runs = max_attempts
        /\ sup.oracle_runs = max_attempts
        /\ sup.report = "failed"
        /\ sup.output = PytestOutput(max_attempts)

C9_Halted == sup.report = "architect_error" => (pc = "input" /\ ~sup.active)

C9_Step ==
    [][(pc = "returned" /\ Contains(last_content, ARCHITECT_ERROR)) =>
         /\ pc' = "input"
         /\ ~sup'.active
         /\ sup'.report = "architect_error"
         /\ sup'.oracle_runs = sup.oracle_runs
         /\ sup'.engine_runs = sup.engine_runs
         /\ sup'.attempt = sup.attempt
         /\ history' = history
         /\ <<base_dir, allowed_dirs, readonly_files>>' = <<base_dir, allowed_dirs, readonly_files>>
         /\ files' = files]_vars

\* C9: when the text agent.run returned holds ARCHITECT_ERROR, the loop halts
\* in that attempt: the oracle is not run for it, no further attempt is
\* started, and the agent (its session and its ToolSet) is not replaced.
C9_ArchitectErrorHalts == []C9_Halted /\ C9_Step

\* the loop halted on ARCHITECT_ERROR in a retry, after the oracle had failed once
C9_Witness ==
    /\ sup.report = "architect_error"
    /\ sup.attempt = 1
    /\ sup.engine_runs = 2
    /\ sup.oracle_runs = 1
    /\ Contains(last_content, ARCHITECT_ERROR)

\* C10: when the text agent.run returned holds DEPENDENCY_ERROR, the loop
\* halts in that attempt: the oracle is not run for it and no further attempt
\* is started.
C10_DependencyErrorHalts ==
    [][(pc = "returned" /\ Contains(last_content, DEPENDENCY_ERROR)) =>
         /\ pc' = "input"
         /\ ~sup'.active
         /\ sup'.oracle_runs = sup.oracle_runs]_vars

\* C11: whenever agent.run is about to be started for a build attempt, the
\* first or a retry, the ToolSet in use allows writes in exactly the module
\* directory and has test_spec.py, PROMPT.md and interface.py read-only.
C11_ConstraintsAtEveryAttempt ==
    pc = "start" =>
        /\ allowed_dirs = <<sup.module_path>>
        /\ readonly_files = <<test_spec_py, PROMPT_md, interface_py>>

\* a retry is about to start on a ToolSet made after a tool call was executed
C11_Witness ==
    /\ pc = "start"
    /\ sup.attempt = 1
    /\ ncalls > 0
    /\ allowed_dirs = <<ModulePath>>

\* C12: every build attempt, the first and each retry, starts on a session
\* that holds the system message only: no message of an earlier attempt or
\* of an earlier user input is in it when the attempt's prompt is appended.
C12_FreshSessionAtEveryAttempt ==
    pc = "start" =>
        /\ Len(history) = 1
        /\ history[1].role = "system"

-----------------------------------------------------------------------------
(* One edit_file call on a file of any content                             *)

MaxEditLen == 3

EditChars == {"a", "b", "\r"}

EditTexts(n) == UNION {[1..k -> EditChars] : k \in 0..n}

EditPath == <<"m", "/", "i">>

\* a workspace whose module holds one file, of any content
InitEdit ==
    /\ base_dir = abspath(Workspace)
    /\ allowed_dirs = <<>>
    /\ readonly_files = <<>>
    /\ \E content \in EditTexts(MaxEditLen) :
          files = (path_join(ModulePath, <<"i">>) :> content)
    /\ dirs = InitialDirs
    /\ upath = <<>>
    /\ res = NoRes
    /\ ncalls = 0
    /\ history = <<>>
    /\ added = <<>>
    /\ IdleMain

\* what the call was given and what it returned
Edited(old_string, new_string, o) ==
    /\ files' = o.files
    /\ dirs' = o.dirs
    /\ upath' = EditPath
    /\ res' = [op |-> "edit_file", ok |-> TRUE, path |-> EditPath, kind |-> o.kind,
               before |-> files[TargetOf(EditPath)],
               old_string |-> old_string, new_string |-> new_string]
    /\ ncalls' = ncalls + 1
    /\ UNCHANGED <<tsVars, sessVars, agentVars>>

EditOnce ==
    \E old_string \in EditTexts(MaxEditLen - 1), new_string \in EditTexts(1) :
        /\ ncalls = 0
        /\ Edited(old_string, new_string,
                  edit_file(ToolSetNow, files, dirs, EditPath, old_string, new_string))

SpecEdit == InitEdit /\ [][EditOnce]_vars

\* the number of positions of s at which pat matches
Occurrences(s, pat) == Cardinality({i \in 1..(Len(s) + 1) : MatchAt(s, i, pat)})

\* C13: an edit_file call whose old_string matches the content at no
\* position, or at more than one, leaves the content as it was and returns
\* the not-found error in the first case and the multiple-occurrences error
\* in the second.
C13_EditRefusedUnlessUnique ==
    (res.op = "edit_file" /\ Occurrences(res.before, res.old_string) # 1) =>
        /\ files[TargetOf(EditPath)] = res.before
        /\ res.kind = IF Occurrences(res.before, res.old_string) = 0
                      THEN "old_string_not_found"
                      ELSE "multiple_occurrences"

\* what append_file leaves when it is called with path and content now
AppendNow(path, content) == append_file(ToolSetNow, files, dirs, path, content)

\* writing to the target of path is permitted by the constraints now
WritableNow(path) ==
    check_write_permission(TargetOf(path), allowed_dirs, readonly_files) = "ok"

\* the target of path resolves under the root and nothing exists there
AbsentNow(path) ==
    resolve_path(base_dir, path).ok /\ ~Exists(files, dirs, TargetOf(path))

\* an existing file that may be written gets the text at its end
AppendsAtEnd(path, content) ==
    (resolve_path(base_dir, path).ok /\ TargetOf(path) \in DOMAIN files /\ WritableNow(path)) =>
        /\ AppendNow(path, content).kind = "ok"
        /\ AppendNow(path, content).dirs = dirs
        /\ AppendNow(path, content).files =
               Put(files, TargetOf(path), files[TargetOf(path)] \o content)

\* C14 as stated: for a target that does not exist the call returns the
\* not-found error and leaves the filesystem as it was; an existing file
\* that may be written gets the text at its end.
C14_AppendNotFoundWhenAbsent ==
    \A path \in FsPaths, content \in FsTexts :
        /\ AbsentNow(path) =>
              /\ AppendNow(path, content).kind = "not_found"
              /\ AppendNow(path, content).files = files
              /\ AppendNow(path, content).dirs = dirs
        /\ AppendsAtEnd(path, content)

\* C14 amended: for a target that does not exist the call returns an error
\* and leaves the filesystem as it was: the permission error when the
\* constraints deny the write, the not-found error otherwise; an existing
\* file that may be written gets the text at its end.
C14_AppendNeverCreates ==
    \A path \in FsPaths, content \in FsTexts :
        /\ AbsentNow(path) =>
              /\ AppendNow(path, content).files = files
              /\ AppendNow(path, content).dirs = dirs
              /\ AppendNow(path, content).kind =
                     IF WritableNow(path) THEN "not_found"
                     ELSE Denied(check_write_permission(TargetOf(path), allowed_dirs, readonly_files))
        /\ AppendsAtEnd(path, content)

\* an append to a missing file of the module was refused as not found
C14_Witness ==
    /\ res.op = "append_file"
    /\ res.kind = "not_found"
    /\ allowed_dirs = <<ModulePath>>
    /\ ~Exists(files, dirs, TargetOf(upath))
    /\ files = InitialFiles


-----------------------------------------------------------------------------
(* _execute_tool on a tool call whose arguments are a fenced payload       *)

\* texts that json.loads parses
Payloads ==
    { <<"{", "\"", "p", "a", "t", "h", "\"", ":", " ", "\"", "m", "/", "i", "\"", ",", " ", "\"", "c", "o", "n", "t", "e", "n", "t", "\"", ":", " ", "\"", "x", "\"", "}">>,
      <<"{", "\"", "p", "a", "t", "h", "\"", ":", " ", "\"", "m", "/", "t", "e", "s", "t", "_", "s", "p", "e", "c", ".", "p", "y", "\"", "}">>,
      <<"{", "}">>,
      <<"{", "\"", "c", "o", "m", "m", "a", "n", "d", "\"", ":", " ", "\"", "l", "s", "\"", "}">>,
      <<"{", "\"", "p", "a", "t", "h", "\"", ":", " ", "\"", "m", "/", "i", "\"", ",", " ", "\"", "c", "o", "n", "t", "e", "n", "t", "\"", ":", " ", "\"", "a", "\\", "n", "b", "\"", "}">>,
      <<"{", "\n", " ", " ", "\"", "p", "a", "t", "h", "\"", ":", " ", "\"", "m", "/", "i", "\"", ",", "\n", " ", " ", "\"", "c", "o", "n", "t", "e", "n", "t", "\"", ":", " ", "\"", "\"", "\n", "}">> }

\* the language tags a fence may carry; none is the empty text
FenceTags == { <<>>, <<"j", "s", "o", "n">>, <<"J", "S", "O", "N">>, <<"p", "y", "t", "h", "o", "n">> }

FencedNames == {N.write_file, N.read_file, N.run_command}

\* the payload in a markdown code fence with the tag
Fenced(tag, payload) == Fence \o tag \o <<"\n">> \o payload \o <<"\n">> \o Fence

\* Agent.run after the model answered the first input with one tool call,
\* its arguments fenced (src/src/agent.py lines 103-118)
InitRepair ==
    /\ base_dir = abspath(Workspace)
    /\ allowed_dirs = <<>>
    /\ readonly_files = <<>>
    /\ files = InitialFiles
    /\ dirs = InitialDirs
    /\ upath = <<>>
    /\ ncalls = 1
    /\ added = <<>>
    /\ mode = "coder"
    /\ pc = "tools"
    /\ last_content = NoneVal
    /\ exc = "none"
    /\ sup = NoSup
    /\ inputs = 1
    /\ \E name \in FencedNames, tag \in FenceTags, payload \in Payloads :
          /\ pending = <<ToolCall(CallId(1), name, Fenced(tag, payload))>>
          /\ res = [op |-> "fenced", ok |-> TRUE, path |-> payload, kind |-> ""]
          /\ history = add_assistant_message(
                           add_user_message(NewSession(SystemPrompt), <<"h", "i">>),
                           NoneVal, <<ToolCall(CallId(1), name, Fenced(tag, payload))>>)

SpecRepair == InitRepair /\ [][ExecuteTool]_vars

\* the tool call with the payload itself as its arguments
Unfenced(tool_call, payload) == [tool_call EXCEPT !.function.arguments = payload]

\* C15: a tool call whose arguments are a valid payload in a code fence, with
\* any language tag or none, is parsed to the value of the payload itself and
\* executed as the call with the bare payload is.
C15_FencedParsesAsPayload ==
    (pc = "tools" /\ res.op = "fenced") =>
        /\ json_loads(strip_markdown(Head(pending).function.arguments)) = json_loads(res.path)
        /\ \A approval \in PromptAnswers :
              execute_tool(ToolSetNow, files, dirs, history, Head(pending), approval)
                  = execute_tool(ToolSetNow, files, dirs, history,
                                 Unfenced(Head(pending), res.path), approval)


-----------------------------------------------------------------------------
(* get_project_context on modules at every depth below the workspace       *)

MaxDepth == 5

\* the directory k levels below the workspace
RECURSIVE DeepDir(_)
DeepDir(k) == IF k = 0 THEN Workspace ELSE DeepDir(k - 1) \o <<"/", "a">>

\* the input that names the module at depth d, relative to the workspace
RECURSIVE DeepInput(_)
DeepInput(d) == IF d = 0 THEN <<"m">> ELSE <<"a", "/">> \o DeepInput(d - 1)

\* what a dependency_graph.json may be: a file of these texts, or a directory
ManifestTexts == { <<"{", "}">>, <<"{", "\"", "m", "\"", ":", " ", "[", "\"", "a", "\"", "]", "}">>, <<"x">> }

\* the directories above the module at depth d, the root included
Above(d) == {<<"/">>} \cup {DeepDir(j) : j \in 0..d}

\* main at the prompt in builder mode, started in a workspace that holds one
\* module at some depth and up to two dependency_graph.json above it
InitContext ==
    /\ base_dir = abspath(Workspace)
    /\ allowed_dirs = <<>>
    /\ readonly_files = <<>>
    /\ upath = <<>>
    /\ ncalls = 0
    /\ history = NewSession(SystemPrompt)
    /\ added = <<>>
    /\ mode = "builder"
    /\ pc = "input"
    /\ pending = <<>>
    /\ last_content = NoneVal
    /\ exc = "none"
    /\ sup = NoSup
    /\ inputs = 0
    /\ \E d \in 0..MaxDepth :
         /\ res = [op |-> "context", ok |-> TRUE, path |-> path_join(DeepDir(d), <<"m">>), kind |-> ""]
         /\ \/ /\ files = (path_join(path_join(DeepDir(d), <<"m">>), test_spec_py) :> <<"x">>)
               /\ dirs = Above(d) \cup {path_join(DeepDir(d), <<"m">>)}
            \/ \E at \in Above(d), text \in ManifestTexts :
                 /\ files = (path_join(path_join(DeepDir(d), <<"m">>), test_spec_py) :> <<"x">>)
                            @@ (path_join(at, dependency_graph_json) :> text)
                 /\ dirs = Above(d) \cup {path_join(DeepDir(d), <<"m">>)}
            \/ \E at \in Above(d) :
                 /\ files = (path_join(path_join(DeepDir(d), <<"m">>), test_spec_py) :> <<"x">>)
                 /\ dirs = Above(d) \cup {path_join(DeepDir(d), <<"m">>), path_join(at, dependency_graph_json)}
            \/ \E at \in Above(d), far \in Above(d), text \in ManifestTexts, other \in ManifestTexts :
                 /\ Len(far) < Len(at)
                 /\ files = (path_join(path_join(DeepDir(d), <<"m">>), test_spec_py) :> <<"x">>)
                            @@ (path_join(at, dependency_graph_json) :> text)
                            @@ (path_join(far, dependency_graph_json) :> other)
                 /\ dirs = Above(d) \cup {path_join(DeepDir(d), <<"m">>)}

\* main reads an input that names the module (lines 155-198)
ContextInput ==
    /\ pc = "input"
    /\ mode = "builder"
    /\ inputs = 0
    /\ \E d \in 0..MaxDepth : Detected(DeepInput(d))
    /\ inputs' = inputs + 1
    /\ UNCHANGED <<fsVars, upath, res, ncalls, added, mode, pending, last_content>>

SpecContext == InitContext /\ [][ContextInput]_vars

\* the first n directories above p
RECURSIVE Ancestors(_, _)
Ancestors(p, n) ==
    IF n = 0 \/ dirname(p) = p THEN {}
    ELSE {dirname(p)} \cup Ancestors(dirname(p), n - 1)

HasManifest(dir) == Exists(files, dirs, path_join(dir, dependency_graph_json))

\* C16: get_project_context looks at no more than the first 5 directories
\* above the module; when none of them holds a dependency_graph.json it gives
\* (None, None) without raising, and main enters the loop with an empty
\* dependency context.
C16_ContextWithinFiveHops ==
    (res.op = "context" /\ inputs = 1) =>
        /\ (\A dir \in Ancestors(res.path, 5) : ~HasManifest(dir)) =>
              /\ pc = "start"
              /\ sup.active
              /\ sup.module_path = res.path
              /\ sup.project_root = NoneVal
              /\ sup.dependency_context = <<>>
        /\ (sup.active /\ sup.project_root # NoneVal) =>
              /\ sup.project_root \in Ancestors(res.path, 5)
              /\ HasManifest(sup.project_root)

\* a module five levels down with a manifest in the workspace, the sixth
\* directory above it: the walk stopped short of it
C16_Witness ==
    /\ res.op = "context"
    /\ pc = "start"
    /\ res.path = path_join(DeepDir(5), <<"m">>)
    /\ HasManifest(Workspace)
    /\ path_join(Workspace, dependency_graph_json) \in DOMAIN files
    /\ sup.project_root = NoneVal
    /\ sup.dependency_context = <<>>


-----------------------------------------------------------------------------
(* The approval gate of run_command                                        *)

\* the answers of the input set that are approval: y, in either case, with
\* any white space around it
Approves(answer) == answer \in {<<"y">>, <<" ", "Y">>}

DeniedText == <<"Error: User denied command execution.">>

\* a run_command call that the dispatcher will call is next
RunCommandNext ==
    /\ pc = "tools"
    /\ Head(pending).function.name = N.run_command
    /\ json_loads(Head(pending).function.arguments).ok
    /\ Binds(N.run_command, json_loads(Head(pending).function.arguments).val)

\* the tool message _execute_tool appends for the call that is next
ToolMessage(answer) ==
    Last(execute_tool(ToolSetNow, files, dirs, history, Head(pending), answer).history)

\* C17: run_command comes to the statement that runs the command only when
\* the answer at the prompt is approval; on every other answer the call
\* returns the user-denied error, which becomes the tool message, and nothing
\* is run; when the prompt cannot be read nothing is run either.
C17_NoRunWithoutApproval ==
    RunCommandNext =>
        \A answer \in PromptAnswers :
            /\ run_command(answer).reached => (answer \in Answers /\ Approves(answer))
            /\ (answer \in Answers /\ ~Approves(answer)) =>
                  /\ ~run_command(answer).reached
                  /\ ToolMessage(answer).role = "tool"
                  /\ ToolMessage(answer).tool_call_id = Head(pending).id
                  /\ ToolMessage(answer).content = DeniedText

\* a run_command call was answered with the user-denied error
C17_Witness ==
    /\ Len(history) > 1
    /\ Last(history).role = "tool"
    /\ Last(history).name = N.run_command
    /\ Last(history).content = DeniedText


\* C18: when the answer at the prompt is approval, the command is run and the
\* text returned, which becomes the tool message, reports its exit code with
\* its captured stdout and stderr.
C18_ApprovedCommandReported ==
    RunCommandNext =>
        \A answer \in Answers :
            Approves(answer) =>
                /\ run_command(answer).reached
                /\ Head(ToolMessage(answer).content) = "Exit Code: "


-----------------------------------------------------------------------------
(* The loop of Agent.run                                                   *)

\* C19: Agent.run appends the user input first; it returns exactly when the
\* model's message carries no tool calls, and returns that message's content;
\* while the message carries tool calls it executes them and, after the last
\* tool output is appended, invokes the model again.
C19_RunIsTwoStateLoop ==
    [][/\ (pc = "input" /\ pc' = "model") =>
             /\ Len(history') = Len(history) + 1
             /\ Last(history').role = "user"
       /\ pc = "model" =>
             /\ Last(history').role = "assistant"
             /\ (pc' = "input") = (Last(history').tool_calls = <<>>)
             /\ (pc' = "tools") = (Last(history').tool_calls # <<>>)
             /\ pc' = "input" => last_content' = Last(history').content
       /\ pc = "tools" =>
             /\ pc' = IF Len(pending) = 1 THEN "model" ELSE "tools"
             /\ Last(history').role = "tool"]_vars


-----------------------------------------------------------------------------
(* The names the dispatcher answers to                                     *)

\* the six tools of the catalogue shown to the model
Capabilities ==
    {N.read_file, N.write_file, N.append_file, N.edit_file, N.list_files, N.run_command}

\* C20: a tool call with parsable arguments whose name is none of the six
\* tools calls nothing on the ToolSet, which stays as it was, and is
\* answered with the tool-not-found error.
C20_OnlySixCapabilities ==
    [][(/\ pc = "tools"
        /\ Head(pending).function.name \notin Capabilities
        /\ json_loads(Head(pending).function.arguments).ok) =>
            /\ exc' = "none"
            /\ UNCHANGED <<tsVars, fsVars>>
            /\ Len(history') = Len(history) + 1
            /\ Last(history').role = "tool"
            /\ Last(history').content =
                  <<"Error: Tool ">> \o Head(pending).function.name \o <<" not found">>]_vars


-----------------------------------------------------------------------------
(* How the retry loop ends                                                 *)

\* C21: the retry loop ends only with the oracle passing, with a fatal
\* sentinel in the text agent.run returned, or with the last attempt failing;
\* no _execute_tool call ends the loop, and every attempt whose agent.run
\* was started and held no sentinel has its oracle run.
C21_LoopEndsThreeWays ==
    /\ [](LoopEnded => sup.report \in {"success", "architect_error", "failed"})
    /\ [][(pc = "tools" /\ sup.active) => (sup'.active /\ pc' \in {"tools", "model"})]_vars
    /\ [](LoopEnded => sup.oracle_runs >= sup.engine_runs - 1)


-----------------------------------------------------------------------------
(* read_file among the writing calls                                       *)

\* one read_file call
FsRead ==
    \E path \in FsPaths \cup {<<"m">>} :
        /\ ncalls < MaxCalls
        /\ ncalls' = ncalls + 1
        /\ upath' = path
        /\ res' = [op |-> "read_file", ok |-> TRUE, path |-> path, kind |-> "",
                   text |-> read_file(ToolSetNow, files, dirs, path)]
        /\ UNCHANGED <<tsVars, fsVars, sessVars, agentVars>>

NextRead == NextFS \/ FsRead

SpecRead == InitFS /\ [][NextRead]_vars

\* C22: read_file is not subject to the write constraints.  For a path that
\* resolves, whatever allowed_dirs and readonly_files are, it returns the
\* content of an existing file as the text-mode read gives it, the not-found error when nothing is there and
\* the not-a-file error for a directory; it leaves the filesystem as it was.
C22_ReadUnrestricted ==
    [][(res'.op = "read_file" /\ ncalls' = ncalls + 1) =>
          /\ files' = files
          /\ dirs' = dirs
          /\ resolve_path(base_dir, upath').ok =>
                /\ TargetOf(upath') \in DOMAIN files => res'.text = universal_newlines(files[TargetOf(upath')])
                /\ TargetOf(upath') \in dirs =>
                      res'.text = <<"Error: Path is not a file: ">> \o upath'
                /\ ~Exists(files, dirs, TargetOf(upath')) =>
                      res'.text = <<"Error: File not found: ">> \o upath']_vars

\* a file outside allowed_dirs was read under the builder's constraints
C22_Witness ==
    /\ res.op = "read_file"
    /\ allowed_dirs = <<ModulePath>>
    /\ readonly_files = BuilderReadonly
    /\ upath = <<"o">>
    /\ TargetOf(upath) \in DOMAIN files
    /\ res.text = universal_newlines(files[TargetOf(upath)])


-----------------------------------------------------------------------------
(* The truncation repair and the parse-error path of _execute_tool         *)

\* the raw arguments of the call that is next parse neither as they are nor
\* with the fence markers removed
Unparsable ==
    /\ pc = "tools"
    /\ ~json_loads(Head(pending).function.arguments).ok
    /\ ~json_loads(strip_markdown(Head(pending).function.arguments)).ok

\* the arguments of the call that is next, closed as a truncated text is
Closed == json_loads(close_truncated(Head(pending).function.arguments))

TruncationApplies ==
    /\ Head(pending).function.name \in {N.write_file, N.append_file}
    /\ Closed.ok

\* C23: when the arguments parse neither as they are nor without the fence,
\* the tool is write_file or append_file and the text closed with a quote and
\* a brace parses, the tool is executed once with the partial arguments and
\* one tool message is appended that holds the tool's result and the warning
\* to continue with append_file; for every other tool name the call is
\* answered with the parse error.
C23_TruncationRepair ==
    [][Unparsable =>
          /\ Len(history') = Len(history) + 1
          /\ Last(history').role = "tool"
          /\ Last(history').tool_call_id = Head(pending).id
          /\ IF TruncationApplies
             THEN /\ exc' = "none"
                  /\ Head(Last(history').content) =
                        "WARNING: The tool call argument was TRUNCATED due to length limits.\nI have auto-repaired the JSON and executed '"
                  /\ Contains(Last(history').content, <<"' with the PARTIAL content.\nResult: ">>)
                  /\ Last(Last(history').content) =
                        "\n\nIMPORTANT: The file is INCOMPLETE. \nYou MUST immediately call 'append_file' to write the REST of the content.\nResume exactly from the end of the written content."
             ELSE Head(Last(history').content) = "Error: Invalid JSON arguments for "]_vars


\* argument texts that json.loads rejects, as they are and without the fence
BrokenTexts ==
    { <<"{", "\"", "p", "a", "t", "h", "\"", ":", " ", "\"", "m", "/", "i", "\"", ",">>,
      <<"g", "a", "r", "b", "a", "g", "e">>,
      <<"{", "\"", "p", "a", "t", "h", "\"">>,
      <<"{", "\"", "p", "a", "t", "h", "\"", ":", " ", "\"", "m", "/", "i", "\"", ",", " ", "\"", "c", "o", "n", "t", "e", "n", "t", "\"", ":", " ", "\"", "x", "\"">>,
      <<Tick, Tick, Tick, "p", "y", "t", "h", "o", "n", "\n", "{", "\"", "p", "a", "t", "h", "\"", ":", " ", "\"", "m", "/", "i", "\"", "}", "\n", Tick, Tick, Tick>>,
      <<"{", "\"", "p", "a", "t", "h", "\"", ":", " ", "\"", "m", "/", "i", "\"", ",", " ", "\"", "c", "o", "n", "t", "e", "n", "t", "\"", ":", " ", "\"", "x">> }

StashNames == {N.read_file, N.write_file, N.append_file, N.run_command}

StashPath == path_join(abspath(Workspace), debug_invalid_json_txt)

\* Agent.run after the model answered the first input with one tool call of
\* broken arguments (src/src/agent.py lines 103-118); the workspace may hold
\* an older debug file, or a directory of that name
InitStash ==
    /\ base_dir = abspath(Workspace)
    /\ allowed_dirs = <<>>
    /\ readonly_files = <<>>
    /\ upath = <<>>
    /\ ncalls = 1
    /\ added = <<>>
    /\ mode = "coder"
    /\ pc = "tools"
    /\ last_content = NoneVal
    /\ exc = "none"
    /\ sup = NoSup
    /\ inputs = 1
    /\ res = [op |-> "broken", ok |-> TRUE, path |-> <<>>, kind |-> ""]
    /\ \/ files = InitialFiles /\ dirs = InitialDirs
       \/ files = InitialFiles @@ (StashPath :> <<"o", "l", "d">>) /\ dirs = InitialDirs
       \/ files = InitialFiles /\ dirs = InitialDirs \cup {StashPath}
    /\ \E name \in StashNames, text \in BrokenTexts :
          /\ pending = <<ToolCall(CallId(1), name, text)>>
          /\ history = add_assistant_message(
                           add_user_message(NewSession(SystemPrompt), <<"h", "i">>),
                           NoneVal, <<ToolCall(CallId(1), name, text)>>)

SpecStash == InitStash /\ [][ExecuteTool]_vars

\* C24: when the arguments parse in no repaired form, no tool is executed;
\* debug_invalid_json.txt in the workspace root is overwritten with the raw
\* argument text, and one tool message is appended that names the tool and
\* the parse failure.  When the file cannot be written the message says so
\* and nothing is raised.
C24_StashOnParseFailure ==
    [][(Unparsable /\ ~TruncationApplies) =>
          /\ exc' = "none"
          /\ dirs' = dirs
          /\ UNCHANGED tsVars
          /\ Len(history') = Len(history) + 1
          /\ Last(history').role = "tool"
          /\ Last(history').tool_call_id = Head(pending).id
          /\ StartsWith(Last(history').content,
                        <<"Error: Invalid JSON arguments for ">> \o Head(pending).function.name
                        \o <<": ", "JSONDecodeError">>)
          /\ IF StashPath \in dirs
             THEN /\ files' = files
                  /\ Contains(Last(history').content, <<"Failed to stash raw arguments: ">>)
             ELSE /\ files' = Put(files, StashPath, Head(pending).function.arguments)
                  /\ EndsWith(Last(history').content, <<"Raw arguments stashed to ">> \o StashPath)]_vars

\* an older debug file was overwritten with the raw arguments
C24_Witness ==
    /\ res.op = "broken"
    /\ Len(history) = 4
    /\ Last(history).role = "tool"
    /\ Last(history).name = N.read_file
    /\ files[StashPath] = history[3].tool_calls[1].function.arguments
    /\ files[StashPath] # <<"o", "l", "d">>


-----------------------------------------------------------------------------
(* The builder in a project with a dependency_graph.json                   *)

ManifestPath == path_join(Workspace, dependency_graph_json)

\* a manifest that lists the module a for m, and one that lists nothing for m
ListsA == <<"{", "\"", "m", "\"", ":", " ", "[", "\"", "a", "\"", "]", "}">>
ListsNone == <<"{", "\"", "m", "\"", ":", " ", "[", "]", "}">>

\* main at the prompt in builder mode; the project may hold a manifest, and
\* the module a that it lists.  The model has one tool call left to make.
InitDep ==
    /\ base_dir = abspath(Workspace)
    /\ allowed_dirs = <<>>
    /\ readonly_files = <<>>
    /\ upath = <<>>
    /\ res = NoRes
    /\ ncalls = MaxToolCalls - 1
    /\ history = NewSession(SystemPrompt)
    /\ added = <<>>
    /\ mode = "builder"
    /\ pc = "input"
    /\ pending = <<>>
    /\ last_content = NoneVal
    /\ exc = "none"
    /\ sup = NoSup
    /\ inputs = 0
    /\ \/ files = InitialFiles /\ dirs = InitialDirs
       \/ files = InitialFiles @@ (ManifestPath :> ListsNone) /\ dirs = InitialDirs
       \/ files = InitialFiles @@ (ManifestPath :> ListsA) /\ dirs = InitialDirs
       \/ /\ files = InitialFiles @@ (ManifestPath :> ListsA)
          /\ dirs = InitialDirs \cup {path_join(Workspace, <<"a">>)}

SpecDep == InitDep /\ [][NextSup]_vars

BasePrompt == <<"b", "u", "i", "l", "d", " ", "m">>

FixInstruction ==
    <<"\n\nPlease analyze ", Tick, "implementation.py", Tick, " and ", Tick, "test_spec.py", Tick,
      ", then FIX the code to pass the tests.\nDO NOT modify ", Tick, "test_spec.py", Tick, ".">>

\* the manifest of the project lists a dependency for m
DepsListed == ManifestPath \in DOMAIN files /\ files[ManifestPath] = ListsA

\* the line of the note for the module a
LineForA ==
    IF path_join(Workspace, <<"a">>) \in dirs
    THEN <<"- **", "a", "**: Path ", Tick>> \o path_join(Workspace, <<"a">>) \o <<Tick, "\n">>
    ELSE <<"- **", "a", "**: (Path not found at ">> \o path_join(Workspace, <<"a">>) \o <<")\n">>

C25_Note ==
    sup.active =>
        IF DepsListed
        THEN /\ StartsWith(sup.dependency_context, <<"\n\n### DEPENDENCY INJECTION\n">>)
             /\ EndsWith(sup.dependency_context, LineForA)
        ELSE sup.dependency_context = <<>>

C25_Prompt ==
    pc = "start" =>
        IF sup.attempt = 0
        THEN sup.current_prompt = BasePrompt \o sup.dependency_context
        ELSE /\ sup.oracle_runs = sup.attempt
             /\ Contains(sup.current_prompt,
                         <<"' failed tests.\nHere is the error output:\n">>
                         \o PytestOutput(sup.attempt) \o FixInstruction)
             /\ \A n \in 1..(sup.attempt - 1) : ~Contains(sup.current_prompt, PytestOutput(n))
             /\ EndsWith(sup.current_prompt, FixInstruction \o sup.dependency_context)

C25_Sent ==
    [][pc = "start" =>
          /\ Last(history').role = "user"
          /\ Last(history').content = sup.current_prompt]_vars

\* C25: the prompt of the first attempt is the input followed by the
\* dependency note, which is empty when the manifest lists no dependency for
\* the module; the prompt of every later attempt holds the output of the
\* oracle run of the attempt before it and of no earlier one, then the
\* instruction to fix the code without modifying test_spec.py, and ends with
\* the same note.  That prompt is the user message agent.run starts with.
C25_PromptOfEveryAttempt == []C25_Note /\ []C25_Prompt /\ C25_Sent

\* the third attempt about to start in a project whose manifest lists a
C25_Witness ==
    /\ pc = "start"
    /\ sup.attempt = 2
    /\ DepsListed
    /\ sup.dependency_context # <<>>
    /\ Contains(sup.current_prompt, PytestOutput(2))


-----------------------------------------------------------------------------
(* The attempt budget                                                      *)

\* main at the prompt in builder mode, in a project without a manifest
InitLoop == InitDep /\ files = InitialFiles /\ dirs = InitialDirs

\* the builder where agent.run and the oracle return: every step of the loop
\* that is enabled is taken in the end.  _execute_tool can be called exactly
\* when pc = "tools", which stands for ENABLED in the weak fairness of
\* ExecuteTool.
SpecSupFair ==
    /\ InitLoop
    /\ [][NextSup]_vars
    /\ WF_vars(StartRun)
    /\ WF_vars(ModelReply)
    /\ WF_vars(AfterRun)
    /\ ([]<>(pc # "tools") \/ []<><<ExecuteTool>>_vars)

C26_Bounded ==
    /\ sup.attempt \in 0..(max_attempts - 1)
    /\ sup.engine_runs <= max_attempts
    /\ sup.oracle_runs <= sup.engine_runs
    /\ sup.active => sup.engine_runs \in {sup.attempt, sup.attempt + 1}

C26_Step ==
    [][sup.active =>
          /\ sup'.attempt \in {sup.attempt, sup.attempt + 1}
          /\ sup'.attempt = sup.attempt + 1 => sup'.oracle_runs = sup.oracle_runs + 1]_vars

\* C26: in every state of a builder invocation the attempt index stays below
\* max_attempts and grows by one at a time; agent.run is started at most
\* max_attempts times and the oracle no more often than agent.run; and, every
\* step being taken in the end, the loop ends.
C26_AttemptsBounded == []C26_Bounded /\ C26_Step /\ (sup.active ~> ~sup.active)

\* the last attempt ran and failed
C26_Witness ==
    /\ LoopEnded
    /\ sup.attempt = max_attempts - 1
    /\ sup.engine_runs = max_attempts
    /\ sup.oracle_runs = max_attempts


\* C27: an edit_file call whose old_string matches the content of the file
\* at exactly one position succeeds, and the new content is the old content
\* with new_string in the place of that match and every other character as
\* it was.
C27_EditReplacesOnce ==
    (res.op = "edit_file" /\ Occurrences(res.before, res.old_string) = 1) =>
        /\ res.kind = "ok"
        /\ \E i \in 1..(Len(res.before) + 1) :
              /\ MatchAt(res.before, i, res.old_string)
              /\ files[TargetOf(EditPath)] =
                    SubSeq(res.before, 1, i - 1) \o res.new_string
                    \o SubSeq(res.before, i + Len(res.old_string), Len(res.before))


-----------------------------------------------------------------------------
(* Which manifest get_project_context takes                                *)

\* the nearest of the first n directories above p that holds a manifest
RECURSIVE Nearest(_, _)
Nearest(p, n) ==
    IF n = 0 \/ dirname(p) = p THEN NoneVal
    ELSE IF HasManifest(dirname(p)) THEN dirname(p)
    ELSE Nearest(dirname(p), n - 1)

\* the manifest in dir is a file that json.load accepts
Loadable(dir) ==
    /\ path_join(dir, dependency_graph_json) \in DOMAIN files
    /\ json_loads(files[path_join(dir, dependency_graph_json)]).ok

\* the manifest in dir lists a dependency for the module m
ListsDependency(dir) == files[path_join(dir, dependency_graph_json)] = <<"{", "\"", "m", "\"", ":", " ", "[", "\"", "a", "\"", "]", "}">>

\* the loop was entered for the module of the workspace
EnteredFor == res.op = "context" /\ inputs = 1 /\ sup.active

\* C28 as stated: the nearest of the first 5 directories above the module
\* that holds a dependency_graph.json is returned as the project root, with
\* its manifest.
C28_NearestManifestTaken ==
    (EnteredFor /\ Nearest(res.path, 5) # NoneVal) =>
        sup.project_root = Nearest(res.path, 5)

\* C28: when the nearest of the first 5 directories above the module that
\* holds a dependency_graph.json holds one that can be loaded, that directory
\* is the project root and the dependency note comes from its manifest; when
\* it cannot be loaded, or no such directory is there, there is no project
\* root and no note.  No directory farther up is ever taken.
C28_NearestLoadableManifest ==
    EnteredFor =>
        IF Nearest(res.path, 5) # NoneVal /\ Loadable(Nearest(res.path, 5))
        THEN /\ sup.project_root = Nearest(res.path, 5)
             /\ (sup.dependency_context # <<>>) = ListsDependency(Nearest(res.path, 5))
        ELSE /\ sup.project_root = NoneVal
             /\ sup.dependency_context = <<>>

\* the nearer of two manifests was taken: it lists nothing for m, the one
\* farther up lists a dependency
C28_Witness ==
    /\ EnteredFor
    /\ sup.project_root = DeepDir(2)
    /\ res.path = path_join(DeepDir(2), <<"m">>)
    /\ HasManifest(DeepDir(1))
    /\ Loadable(DeepDir(1))
    /\ ListsDependency(DeepDir(1))
    /\ sup.dependency_context = <<>>


-----------------------------------------------------------------------------
(* The constraints during an attempt                                       *)

\* what the ToolSet's constraints are after _execute_tool ran the sample as
\* the call that is next
ConstraintsAfter(sample, approval) ==
    [allowed_dirs |->
         execute_tool(ToolSetNow, files, dirs, history,
                      ToolCall(Head(pending).id, sample.name, sample.arguments), approval).allowed_dirs,
     readonly_files |->
         execute_tool(ToolSetNow, files, dirs, history,
                      ToolCall(Head(pending).id, sample.name, sample.arguments), approval).readonly_files]

\* C29: during a build attempt no tool call the model may request, whatever
\* its function name and arguments, leaves the ToolSet with other
\* allowed_dirs or readonly_files than it had before the call.
C29_ConstraintsFixedInAttempt ==
    (sup.active /\ pc = "tools") =>
        \A sample \in CoderSamples \cup BuilderSamples, approval \in PromptAnswers :
            ConstraintsAfter(sample, approval) =
                [allowed_dirs |-> allowed_dirs, readonly_files |-> readonly_files]


-----------------------------------------------------------------------------
(* The read-only files of the module across a builder invocation           *)

\* a test file that imports the interface by a relative import
RelativeImport == <<"f", "r", "o", "m", " ", ".", "i", "n", "t", "e", "r", "f", "a", "c", "e", " ", "i", "m", "p", "o", "r", "t", " ", "f">>

\* main at the prompt in builder mode, the module's test_spec.py holding a
\* relative import
InitFix ==
    /\ base_dir = abspath(Workspace)
    /\ allowed_dirs = <<>>
    /\ readonly_files = <<>>
    /\ files = (path_join(ModulePath, test_spec_py) :> RelativeImport)
    /\ dirs = InitialDirs
    /\ upath = <<>>
    /\ res = NoRes
    /\ ncalls = MaxToolCalls - 1
    /\ history = NewSession(SystemPrompt)
    /\ added = <<>>
    /\ mode = "builder"
    /\ pc = "input"
    /\ pending = <<>>
    /\ last_content = NoneVal
    /\ exc = "none"
    /\ sup = NoSup
    /\ inputs = 0

SpecFix == InitFix /\ [][NextSup]_vars

\* the file of that name in the module is after the step what it was before
Kept(name) ==
    path_join(sup.module_path, name) \in DOMAIN files =>
        /\ path_join(sup.module_path, name) \in DOMAIN files'
        /\ files'[path_join(sup.module_path, name)] = files[path_join(sup.module_path, name)]

\* C30: from the entry into the retry loop to its end, in the steps of
\* agent.run and in main's own steps between agent.run and the oracle, the
\* content of the module's test_spec.py, PROMPT.md and interface.py stays
\* what it was.
C30_ReadonlyFilesKept ==
    [][sup.active => (Kept(test_spec_py) /\ Kept(PROMPT_md) /\ Kept(interface_py))]_vars


-----------------------------------------------------------------------------
(* Tool calls of the catalogue against a ToolSet with and without           *)
(* constraints                                                              *)

\* the paths the calls name: in the module, a read-only file of the module,
\* in the workspace beside the module, beside the workspace under a name
\* that begins as the workspace's does, and beside the workspace
GuardPaths == { <<"m", "/", "i">>,
               <<"m", "/", "t", "e", "s", "t", "_", "s", "p", "e", "c", ".", "p", "y">>,
               <<"o">>,
               <<".", ".", "/", "w", "x">>,
               <<".", ".", "/", "x">> }

\* the arguments of a write as the model sends them whole
WholeArgs(path) == <<"{", "\"", "p", "a", "t", "h", "\"", ":", " ", "\"">> \o path \o <<"\"", ",", " ", "\"", "c", "o", "n", "t", "e", "n", "t", "\"", ":", " ", "\"", "y", "\"", "}">>

\* the arguments of a write cut off inside the content
CutArgs(path) == <<"{", "\"", "p", "a", "t", "h", "\"", ":", " ", "\"">> \o path \o <<"\"", ",", " ", "\"", "c", "o", "n", "t", "e", "n", "t", "\"", ":", " ", "\"", "y">>

GuardSamples ==
    { Sample(name, WholeArgs(path)) : name \in {N.write_file, N.append_file}, path \in GuardPaths }
    \cup { Sample(name, CutArgs(path)) : name \in {N.write_file, N.append_file}, path \in GuardPaths }
    \cup { Sample(N.read_file, <<"g", "a", "r", "b", "a", "g", "e">>),
           Sample(N.write_file, <<"{", "\"", "p", "a", "t", "h", "\"", ":", " ", "\"", "m", "/", "i", "\"", ",">>) }

\* the files that are there beside the module's test
GuardFiles ==
    (path_join(ModulePath, <<"i">>) :> <<"z">>)
    @@ (path_join(abspath(Workspace), <<"o">>) :> <<"z">>)
    @@ (<<"/", "w", "x">> :> <<"z">>)

\* Agent.run after the model answered the first input with one or two tool
\* calls (src/src/agent.py lines 103-118), the ToolSet as it was constructed
\* or after set_constraints with the module's directory and read-only names
InitGuard ==
    /\ base_dir = abspath(Workspace)
    /\ \/ allowed_dirs = <<>> /\ readonly_files = <<>>
       \/ allowed_dirs = set_constraints_dirs(<<ModulePath>>) /\ readonly_files = BuilderReadonly
    /\ \/ files = InitialFiles
       \/ files = InitialFiles @@ GuardFiles
    /\ dirs = InitialDirs
    /\ upath = <<>>
    /\ ncalls = 1
    /\ added = <<>>
    /\ mode = "coder"
    /\ pc = "tools"
    /\ last_content = NoneVal
    /\ exc = "none"
    /\ sup = NoSup
    /\ inputs = 1
    /\ res = [op |-> "guard", ok |-> TRUE, path |-> <<>>, kind |-> ""]
    /\ \E samples \in SeqsUpTo(GuardSamples, MaxPerReply) :
          /\ pending = MakeCalls(samples, 0)
          /\ history = add_assistant_message(
                           add_user_message(NewSession(SystemPrompt), <<"h", "i">>),
                           NoneVal, MakeCalls(samples, 0))

SpecGuard == InitGuard /\ [][ExecuteTool]_vars

\* the path is one of the allowed directories or lies below one
InAllowed(p) == \E i \in 1..Len(allowed_dirs) : commonpath(p, allowed_dirs[i]) = allowed_dirs[i]

\* the file is new after the step or holds another text than before
Touched(p) == p \in DOMAIN files' /\ (p \notin DOMAIN files \/ files'[p] # files[p])

\* C31: while allowed_dirs is set, no _execute_tool call of a tool of the
\* catalogue, its arguments whole, cut off or unparsable, leaves a file new
\* or changed that lies outside every allowed directory (run_command starts
\* no process here and changes no file).
C31_NoWriteOutsideAllowed ==
    [][allowed_dirs # <<>> => \A p \in DOMAIN files' : Touched(p) => InAllowed(p)]_vars


\* the arguments the truncation repair calls the method with
RepairedArgs == Closed.val

\* the repaired call is a write with a path and a content
RepairedWrite ==
    /\ Unparsable
    /\ TruncationApplies
    /\ Binds(Head(pending).function.name, RepairedArgs)
    /\ IsStr(Arg(RepairedArgs, K.path))
    /\ IsStr(Arg(RepairedArgs, K.content))

\* the file the repaired call names
RepairedTarget == abspath(path_join(base_dir, Arg(RepairedArgs, K.path).s))

\* the file is named read-only, lies outside every allowed directory, or
\* lies outside the workspace
Forbidden(p) ==
    \/ InList(basename(p), readonly_files)
    \/ allowed_dirs # <<>> /\ ~InAllowed(p)
    \/ commonpath(p, base_dir) # base_dir

\* the tool message of the step holds, as the result of the call, an error
\* text of write_file or append_file
CarriesToolError ==
    /\ Len(history') = Len(history) + 1
    /\ Last(history').role = "tool"
    /\ \E i \in 1..(Len(Last(history').content) - 1) :
          /\ Last(history').content[i] = "' with the PARTIAL content.\nResult: "
          /\ Last(history').content[i + 1] \in {"Error: ", "Error writing file ", "Error appending to file "}

\* C32: a write_file or append_file that the truncation repair executes on a
\* file that is read-only, outside the allowed directories or outside the
\* workspace root writes nothing, and the tool message carries the error
\* text of the tool.
C32_RepairedWriteChecked ==
    [][(RepairedWrite /\ Forbidden(RepairedTarget)) => (files' = files /\ CarriesToolError)]_vars

=============================================================================
